---------------------------- MODULE Spec2Model ----------------------------
(***************************************************************************)
(* State-coordination layer of the DWC server admin panel                  *)
(* (admin_panel/dwc_admin/database_manager.py, models.py and the REST      *)
(* views of admin_panel/dwc_api/views.py).                                 *)
(*                                                                         *)
(* The store is a relational database reached through the Django ORM.      *)
(* Every ORM statement (SELECT, INSERT, UPDATE, DELETE) is one atomic step *)
(* on the committed tables.  Outside "with transaction.atomic()" each      *)
(* statement commits by itself (Django's autocommit); inside it the writes *)
(* of a caller stay in that caller's transaction until COMMIT, other       *)
(* callers read committed rows only, and an INSERT that meets another      *)
(* caller's uncommitted row with the same unique key waits for that        *)
(* caller to finish.                                                       *)
(*                                                                         *)
(* Time is counted in minutes, as the timedelta(minutes=...) thresholds of *)
(* the source are.                                                         *)
(*                                                                         *)
(* SpecProfile runs the profile operations of several callers statement by *)
(* statement.  SpecSession and SpecPending run whole calls one after the   *)
(* other; the history variable "last" records the last call, its result    *)
(* and, when it repeats the call before it, that call's result.            *)
(***************************************************************************)
EXTENDS Integers, FiniteSets, Sequences, TLC

\* ------------------------------------------------------------------------
\* Bounds of the model
\* ------------------------------------------------------------------------

\* Concurrent callers of the profile operations.
NumProcs == 2

\* Cap on the auto-increment profile id (BigAutoField).
MaxProfileId == 3

\* Cap on the clock.
MaxNow == 62

\* Cap on the auto-increment id of Pending rows.
MaxPendingId == 2

\* Cap on the clock where it moves a minute at a time.
MaxHeartbeatNow == 3

\* Minutes the clock runs while consoles announce themselves.
MaxConsoleNow == 2

\* ------------------------------------------------------------------------
\* Program constants
\* ------------------------------------------------------------------------

\* database_manager.SESSION_TIMEOUT_MINUTES, the default age of the sweep.
SESSION_TIMEOUT_MINUTES == 30

\* The literal of Session.is_active: timedelta(minutes=30).
IsActiveMinutes == 30

\* database_manager.HEARTBEAT_TIMEOUT_MINUTES
HEARTBEAT_TIMEOUT_MINUTES == 2

\* The literal of GameServer.is_online: timedelta(minutes=2).
IsOnlineMinutes == 2

\* ------------------------------------------------------------------------
\* Inputs
\* ------------------------------------------------------------------------

Procs == 1 .. NumProcs

UserIds == {"u1", "u2"}

GameIds == {"ADAJ"}

\* **kwargs of the profile constructors: the model fields the operations
\* read later (the others are opaque passthrough).
DefaultKwargs == [gs_broadcast_code |-> "", uniquenick |-> ""]

Kwargs == {DefaultKwargs, [gs_broadcast_code |-> "ADAJ12xxx1", uniquenick |-> "nick"]}

ProfileIds == 1 .. MaxProfileId

\* Values secrets.token_hex(16) can return.
SessionKeys == {"k1", "k2"}

\* How far the clock moves between two calls.
TickSteps == {29, 30, 31}

\* max_age_minutes values given to cleanup_old_sessions.
MaxAges == {-1, 0, 1, SESSION_TIMEOUT_MINUTES}

GroupIds == {9, 10}

\* NAT negotiation cookies.
Cookies == {42, 43}

ClientAddrs == {"1.1.1.1", "2.2.2.2"}

ClientPorts == {1000, 2000}

ServerIds == {"s1", "s2"}

\* request.data without 'current_players'.
NoPlayers == [given |-> FALSE, value |-> 0]

\* (game_name, ip_address, port) of a server registration.
Registrations == {<<"mkw", "10.0.0.1", 7000>>, <<"pkm", "10.0.0.2", 7001>>}

\* profile_id values given as the host of a server.
HostIds == {1, 2}

\* request.data.get('current_players') of a heartbeat.
PlayerCounts == {NoPlayers, [given |-> TRUE, value |-> 3]}

\* How far the clock moves between two game-server calls.
ShortTickSteps == {1, 2}

\* expires_at of a ban: None, or a time.
NoExpiry == [null |-> TRUE, at |-> 0]
Expiries == {NoExpiry, [null |-> FALSE, at |-> 1], [null |-> FALSE, at |-> 2]}

\* (ban_type, identifier) of the bans; the types are BAN_TYPE_CHOICES.
BanKeys == {<<"ip", "1.2.3.4">>, <<"mac", "00:11:22:aa:bb:cc">>}

\* The bans that concern profile 1 of user "u1".
GateBanKeys == {<<"profile", "1">>, <<"userid", "u1">>}

\* Who sends a request to the API: anonymous, logged in, admin (is_staff).
ApiCallers == {[authenticated |-> FALSE, is_staff |-> FALSE],
               [authenticated |-> TRUE, is_staff |-> FALSE],
               [authenticated |-> TRUE, is_staff |-> TRUE]}

\* (ban_type, identifier) in the body of a request to the ban API; both
\* are missing in the second.
ApiBanKeys == {<<"ip", "1.2.3.4">>, <<"", "">>}

\* Reason and issuer of a ban or deny entry: (reason, banned_by).
Issuings == {<<"", "">>, <<"cheating", "admin">>}

\* The MAC address consoles announce themselves with.
ConsoleMacs == {"00:09:bf:11:22:33"}

\* The attributes a console is announced with: the user id.
ConsoleUsers == {"u1", "u2"}

\* Two MAC addresses that differ in case only.
MacAddresses == {"00:11:22:aa:bb:cc", "00:11:22:AA:BB:CC"}

VARIABLES
    profiles,       \* table "profiles": the committed Profile rows
    nextProfileId,  \* next value of the profile_id sequence
    creator,        \* history: profile_id -> the operation that inserted it
    pc,             \* per caller: its position inside a profile operation
    call,           \* per caller: the operation it runs and its arguments
    txrow,          \* per caller: the row its open transaction has written
    ret,            \* per caller: the result of its finished operation
    sessions,       \* table "sessions": the Session rows
    now,            \* timezone.now()
    pending,        \* table "pending": the Pending rows
    nextPendingId,  \* next value of the Pending id sequence
    last,           \* the last finished call of the sequential operations
    qpc,            \* per caller: its position inside a matchmaking operation
    qcall,          \* per caller: the matchmaking operation it runs
    qret,           \* per caller: the result of its matchmaking operation
    natneg,         \* table "natneg": the committed NatNeg rows
    npc,            \* per caller: its position inside create_natneg
    ncall,          \* per caller: the NAT operation it runs and its arguments
    ntx,            \* per caller: the row lock and the write of its transaction
    nret,           \* per caller: the result of its NAT operation
    servers,        \* table "game_servers": the GameServer rows
    banned,         \* table "banned": the BannedItem rows
    allow,          \* table "allow_list": the AllowList rows
    deny,           \* table "deny_list": the DenyList rows
    consoles,       \* table "consoles": the Console rows
    cpc,            \* per caller: its position inside get_or_create_console
    ccall,          \* per caller: the console operation it runs
    cret,           \* per caller: the result of its console operation
    hpc,            \* per caller: its position inside a heartbeat request
    hcall,          \* per caller: the heartbeat it runs and the row it read
    spc,            \* per caller: its position inside a session-create request
    scall           \* per caller: the session-create request it runs

profVars == <<profiles, nextProfileId, creator>>

procVars == <<pc, call, txrow, ret>>

sessVars == <<sessions, now>>

pendVars == <<pending, nextPendingId>>

pendProcVars == <<qpc, qcall, qret>>

natProcVars == <<npc, ncall, ntx, nret>>

aclVars == <<banned, allow, deny>>

consVars == <<consoles, cpc, ccall, cret>>

hbVars == <<hpc, hcall>>

reqVars == <<spc, scall>>

\* What the profile, session and sequential matchmaking operations never
\* touch.
restVars ==
    <<pendProcVars, natneg, natProcVars, servers, aclVars, consVars, hbVars, reqVars>>

vars == <<profiles, nextProfileId, creator, pc, call, txrow, ret,
          sessions, now, pending, nextPendingId, last,
          qpc, qcall, qret, natneg, npc, ncall, ntx, nret,
          servers, banned, allow, deny, consoles, cpc, ccall, cret, hpc, hcall,
          spc, scall>>

\* ------------------------------------------------------------------------
\* Profile rows and the friend code
\* ------------------------------------------------------------------------

\* Python's None where a Profile is expected: no row has primary key 0.
NoProfile ==
    [profile_id |-> 0, user_id |-> "", game_id |-> "", cfc |-> <<>>,
     gs_broadcast_code |-> "", uniquenick |-> "", console |-> ""]

\* The cfc column before it is written: CharField(blank=True), the empty string.
EmptyCfc == <<>>

\* friendcode.generate_friend_code: a function of the profile id and the
\* game code, kept symbolic.
generate_friend_code(profile_id, game_code) == <<profile_id, game_code>>

\* friendcode.format_friend_code: the grouped display string, never empty.
format_friend_code(fc) == <<"fc">> \o fc

\* Profile(user_id=..., game_id=..., **kwargs) with primary key id.
NewProfile(id, user_id, game_id, kwargs) ==
    [profile_id |-> id, user_id |-> user_id, game_id |-> game_id,
     cfc |-> EmptyCfc,
     gs_broadcast_code |-> kwargs.gs_broadcast_code,
     uniquenick |-> kwargs.uniquenick,
     console |-> ""]

\* Rows of a table that match (user_id, game_id).
ByUserGame(table, user_id, game_id) ==
    {r \in table : r.user_id = user_id /\ r.game_id = game_id}

\* Variant: the table has no unique constraint on the pair.
NoUniqueTogether(user_id, game_id) == FALSE

\* Profile.Meta.unique_together = ['user_id', 'game_id']: an INSERT of this
\* pair is refused (IntegrityError) when a committed row holds it.
UniqueTogetherViolated(user_id, game_id) ==
    ByUserGame(profiles, user_id, game_id) # {}

\* An INSERT of the pair waits while another caller's open transaction
\* holds an uncommitted row with it.
InsertBlocked(p, user_id, game_id) ==
    \E q \in Procs \ {p} :
        /\ txrow[q] # NoProfile
        /\ txrow[q].user_id = user_id
        /\ txrow[q].game_id = game_id

\* QuerySet.get of one row: the row, DoesNotExist or MultipleObjectsReturned.
Get(rows) ==
    IF rows = {} THEN [err |-> "DoesNotExist", val |-> NoProfile]
    ELSE IF Cardinality(rows) > 1
         THEN [err |-> "MultipleObjectsReturned", val |-> NoProfile]
         ELSE [err |-> "", val |-> CHOOSE r \in rows : TRUE]

\* DatabaseManager.get_profile_by_id: the profile or None.
get_profile_by_id(profile_id) ==
    LET got == Get({r \in profiles : r.profile_id = profile_id})
    IN  IF got.err = "DoesNotExist" THEN [err |-> "", val |-> NoProfile] ELSE got

\* DatabaseManager.get_profile_by_uniquenick: the profile or None; only
\* DoesNotExist is caught.
get_profile_by_uniquenick(uniquenick) ==
    LET got == Get({r \in profiles : r.uniquenick = uniquenick})
    IN  IF got.err = "DoesNotExist" THEN [err |-> "", val |-> NoProfile] ELSE got

\* A caller that runs nothing.  obj is the caller's local Profile instance,
\* profile_id and uniquenick the key a lookup is called with, path the
\* branch the call took.
NoCall == [op |-> "", user_id |-> "", game_id |-> "", kwargs |-> DefaultKwargs,
           obj |-> NoProfile, profile_id |-> 0, uniquenick |-> "", path |-> ""]

\* What is left of a call once its locals are dead: the operation, the key
\* it was called with and the branch it took.
Finished(c) == [c EXCEPT !.kwargs = DefaultKwargs, !.obj = NoProfile]

\* A call of get_or_create_profile or create_profile.
ProfileCall(op, user_id, game_id, kwargs, obj, path) ==
    [op |-> op, user_id |-> user_id, game_id |-> game_id, kwargs |-> kwargs,
     obj |-> obj, profile_id |-> 0, uniquenick |-> "", path |-> path]

NoRet == [err |-> "", val |-> NoProfile]

\* Python's None where a Session is expected.
NoSession == [session_key |-> "", profile |-> 0, login_time |-> 0]

\* Python's None where a Pending is expected: no row has primary key 0.
NoPending == [id |-> 0, profile |-> 0, group_id |-> 0, created_at |-> 0]

\* Python's None where a NatNeg is expected.
NoNatNeg == [cookie |-> 0, client_addr |-> "", client_port |-> 0, created_at |-> 0]

\* A caller that runs no matchmaking operation.
NoPendingCall == [op |-> "", profile_id |-> 0, group_id |-> 0, path |-> ""]

\* No result of a matchmaking operation yet.
NoPendingRet == [err |-> "", ok |-> FALSE, pending |-> NoPending]

\* A caller that runs no NAT operation.  obj is its local NatNeg instance.
NoNatCall == [op |-> "", cookie |-> 0, client_addr |-> "", client_port |-> 0,
              obj |-> NoNatNeg, path |-> ""]

\* A transaction that holds no row lock and has written nothing.
NoNatTx == [lock |-> {}, row |-> NoNatNeg]

\* No result of a NAT operation yet.
NoNatRet == [err |-> "", natneg |-> NoNatNeg]

\* Python's None where a GameServer is expected.
NoServer ==
    [server_id |-> "", game_name |-> "", host_profile |-> 0, ip_address |-> "",
     port |-> 0, max_players |-> 0, current_players |-> 0,
     registered_at |-> 0, last_heartbeat |-> 0]

\* No BannedItem, AllowList or DenyList row.
NoBan ==
    [ban_type |-> "", identifier |-> "", reason |-> "", expires_at |-> NoExpiry,
     banned_by |-> "", banned_at |-> 0]

NoAllow ==
    [user_id |-> "", mac_address |-> "", enabled |-> FALSE, notes |-> "",
     added_at |-> 0]

NoDeny ==
    [user_id |-> "", game_id |-> "", reason |-> "", banned_by |-> "", banned_at |-> 0]

\* Python's None where a Console is expected.
NoConsole ==
    [mac_address |-> "", user_id |-> "", enabled |-> FALSE,
     registered_at |-> 0, last_seen |-> 0]

\* A caller that runs no console operation.  obj is its local Console.
NoConsoleCall == [op |-> "", mac_address |-> "", user_id |-> "",
                  obj |-> NoConsole, path |-> ""]

\* No result of a console operation yet.
NoConsoleRet == [err |-> "", console |-> NoConsole]

\* A caller that runs no heartbeat.  obj is the GameServer it has read.
NoHeartbeat == [server_id |-> "", players |-> NoPlayers, obj |-> NoServer,
                path |-> ""]

\* A caller that runs no session-create request.  session_key is the key
\* create_session returned, status the HTTP status of the response (0: none
\* yet), session the row the response serializes.
NoRequest == [profile_id |-> 0, session_key |-> "", status |-> 0,
              session |-> NoSession]

\* The arguments of a call, and the values it drew: a field per argument.
NoArgs == [profile_id |-> 0, session_key |-> "", user_id |-> "", game_id |-> "",
           minutes |-> 0, group_id |-> 0,
           cookie |-> 0, client_addr |-> "", client_port |-> 0,
           server_id |-> "", game_name |-> "", ip_address |-> "", port |-> 0,
           players |-> NoPlayers,
           ban_type |-> "", identifier |-> "", expires_at |-> NoExpiry,
           mac_address |-> "",
           action |-> "", is_staff |-> FALSE, authenticated |-> FALSE,
           reason |-> "", banned_by |-> "", uniquenick |-> ""]

\* What a call returned: a field per type of result; before is the stored
\* row an upsert found, as it was.
NoResult == [ok |-> FALSE, key |-> "", count |-> 0, profile |-> NoProfile,
             session |-> NoSession, pending |-> NoPending, natneg |-> NoNatNeg,
             server |-> NoServer, servers |-> {},
             ban |-> NoBan, entry |-> NoAllow, denied |-> NoDeny,
             bans |-> {}, console |-> NoConsole, cfc |-> EmptyCfc,
             sessions |-> {}, before |-> NoAllow]

\* A call that does not repeat the call before it.
NoPrev == [same |-> FALSE, ret |-> NoResult]

\* The last finished call of the sequential operations: nothing yet.
NoLast == [op |-> "", args |-> NoArgs, path |-> "", ret |-> NoResult,
           prev |-> NoPrev]

\* ------------------------------------------------------------------------
\* Profile operations, one ORM statement per step
\* ------------------------------------------------------------------------

otherThanProfile == <<sessions, now, pending, nextPendingId, last, restVars>>

\* The record of a finished call: its arguments, the branch it took (the
\* exception it raised, if any), what it returned and, when it repeats the
\* call before it (same operation, same arguments), what that one returned.
Called(op, args, path, r) ==
    [op |-> op, args |-> args, path |-> path, ret |-> r,
     prev |-> IF last.op = op /\ last.args = args
              THEN [same |-> TRUE, ret |-> last.ret]
              ELSE NoPrev]

\* Variant: get_or_create_profile without the atomic block.
GocAutocommit == FALSE

\* Whether the statements of get_or_create_profile run inside
\* "with transaction.atomic()".
GocInTransaction == TRUE

\* UPDATE profiles SET cfc = ... WHERE profile_id = ...
UpdateCfc(table, profile_id, cfc) ==
    {IF r.profile_id = profile_id THEN [r EXCEPT !.cfc = cfc] ELSE r : r \in table}

\* get_or_create_profile: BEGIN, then the SELECT of QuerySet.get_or_create.
\* A hit returns the stored row; only DoesNotExist leads to the INSERT.
GocSelect(p, user_id, game_id, kwargs) ==
    /\ pc[p] = "idle"
    /\ LET got == Get(ByUserGame(profiles, user_id, game_id))
       IN  IF got.err = "DoesNotExist"
           THEN /\ call' = [call EXCEPT ![p] =
                               ProfileCall("get_or_create_profile", user_id,
                                           game_id, kwargs, NoProfile, "")]
                /\ pc' = [pc EXCEPT ![p] = "goc_insert"]
                /\ ret' = ret
           ELSE /\ call' = [call EXCEPT ![p] =
                               Finished(ProfileCall("get_or_create_profile", user_id,
                                                    game_id, kwargs, got.val, "found"))]
                /\ pc' = [pc EXCEPT ![p] = "done"]
                /\ ret' = [ret EXCEPT ![p] = got]
    /\ UNCHANGED <<profVars, txrow, otherThanProfile>>

\* get_or_create_profile: the INSERT of QuerySet.get_or_create (self.create
\* inside a savepoint).  A unique violation is caught and leads to a second
\* SELECT; otherwise the row is written with an empty cfc.
GocInsert(p) ==
    /\ pc[p] = "goc_insert"
    /\ ~InsertBlocked(p, call[p].user_id, call[p].game_id)
    /\ IF UniqueTogetherViolated(call[p].user_id, call[p].game_id)
       THEN /\ pc' = [pc EXCEPT ![p] = "goc_reselect"]
            /\ call' = [call EXCEPT ![p].path = "conflict"]
            /\ UNCHANGED <<profVars, txrow>>
       ELSE /\ nextProfileId <= MaxProfileId
            /\ LET row == NewProfile(nextProfileId, call[p].user_id,
                                     call[p].game_id, call[p].kwargs)
               IN  /\ IF GocInTransaction
                      THEN /\ txrow' = [txrow EXCEPT ![p] = row]
                           /\ profiles' = profiles
                      ELSE /\ profiles' = profiles \cup {row}
                           /\ txrow' = txrow
                   /\ call' = [call EXCEPT ![p].obj = row, ![p].path = "created",
                                           ![p].kwargs = DefaultKwargs]
                   /\ creator' = [creator EXCEPT ![row.profile_id] = call[p].op]
            /\ nextProfileId' = nextProfileId + 1
            /\ pc' = [pc EXCEPT ![p] = "goc_cfc"]
    /\ UNCHANGED <<ret, otherThanProfile>>

\* get_or_create_profile: the SELECT QuerySet.get_or_create runs after an
\* IntegrityError; when it finds nothing the IntegrityError is raised.
GocReselect(p) ==
    /\ pc[p] = "goc_reselect"
    /\ LET got == Get(ByUserGame(profiles, call[p].user_id, call[p].game_id))
       IN  /\ ret' = [ret EXCEPT ![p] =
                         IF got.err = "DoesNotExist"
                         THEN [err |-> "IntegrityError", val |-> NoProfile]
                         ELSE got]
           /\ call' = [call EXCEPT ![p] = Finished([call[p] EXCEPT !.path = "reselected"])]
    /\ pc' = [pc EXCEPT ![p] = "done"]
    /\ UNCHANGED <<profVars, txrow, otherThanProfile>>

\* get_or_create_profile, "if created": the friend code is derived from
\* (profile_id, game_id) and written with save(update_fields=['cfc']).
GocSaveCfc(p) ==
    /\ pc[p] = "goc_cfc"
    /\ LET fc  == generate_friend_code(call[p].obj.profile_id, call[p].game_id)
           cfc == format_friend_code(fc)
       IN  /\ call' = [call EXCEPT ![p].obj.cfc = cfc]
           /\ IF GocInTransaction
              THEN /\ txrow' = [txrow EXCEPT ![p].cfc = cfc]
                   /\ profiles' = profiles
              ELSE /\ profiles' = UpdateCfc(profiles, call[p].obj.profile_id, cfc)
                   /\ txrow' = txrow
    /\ pc' = [pc EXCEPT ![p] = "goc_commit"]
    /\ UNCHANGED <<nextProfileId, creator, ret, otherThanProfile>>

\* get_or_create_profile: leaving the atomic block commits the transaction's
\* row; the local instance is returned.
GocCommit(p) ==
    /\ pc[p] = "goc_commit"
    /\ profiles' = IF txrow[p] # NoProfile THEN profiles \cup {txrow[p]} ELSE profiles
    /\ txrow' = [txrow EXCEPT ![p] = NoProfile]
    /\ ret' = [ret EXCEPT ![p] = [err |-> "", val |-> call[p].obj]]
    /\ call' = [call EXCEPT ![p] = Finished(call[p])]
    /\ pc' = [pc EXCEPT ![p] = "done"]
    /\ UNCHANGED <<nextProfileId, creator, otherThanProfile>>

\* create_profile: Profile.objects.create, an INSERT that commits by itself.
\* A taken (user_id, game_id) raises IntegrityError.
CreateInsert(p, user_id, game_id, kwargs) ==
    /\ pc[p] = "idle"
    /\ ~InsertBlocked(p, user_id, game_id)
    /\ IF UniqueTogetherViolated(user_id, game_id)
       THEN /\ call' = [call EXCEPT ![p] =
                           Finished(ProfileCall("create_profile", user_id, game_id,
                                                kwargs, NoProfile, "conflict"))]
            /\ ret' = [ret EXCEPT ![p] = [err |-> "IntegrityError", val |-> NoProfile]]
            /\ pc' = [pc EXCEPT ![p] = "done"]
            /\ UNCHANGED profVars
       ELSE /\ nextProfileId <= MaxProfileId
            /\ LET row == NewProfile(nextProfileId, user_id, game_id, kwargs)
               IN  /\ profiles' = profiles \cup {row}
                   /\ call' = [call EXCEPT ![p] =
                                  ProfileCall("create_profile", user_id, game_id,
                                              DefaultKwargs, row, "created")]
                   /\ creator' = [creator EXCEPT ![row.profile_id] = "create_profile"]
            /\ nextProfileId' = nextProfileId + 1
            /\ pc' = [pc EXCEPT ![p] = "create_cfc"]
            /\ ret' = ret
    /\ UNCHANGED <<txrow, otherThanProfile>>

\* create_profile: the friend code is derived and written with a second,
\* separately committed statement; the local instance is returned.
CreateSaveCfc(p) ==
    /\ pc[p] = "create_cfc"
    /\ LET fc  == generate_friend_code(call[p].obj.profile_id, call[p].game_id)
           cfc == format_friend_code(fc)
       IN  /\ profiles' = UpdateCfc(profiles, call[p].obj.profile_id, cfc)
           /\ call' = [call EXCEPT ![p] = Finished(call[p])]
           /\ ret' = [ret EXCEPT ![p] =
                         [err |-> "", val |-> [call[p].obj EXCEPT !.cfc = cfc]]]
    /\ pc' = [pc EXCEPT ![p] = "done"]
    /\ UNCHANGED <<nextProfileId, creator, txrow, otherThanProfile>>

\* A caller runs get_profile_by_id.
GetProfileById(p, profile_id) ==
    /\ pc[p] = "idle"
    /\ call' = [call EXCEPT ![p] =
                   [NoCall EXCEPT !.op = "get_profile_by_id", !.profile_id = profile_id]]
    /\ ret' = [ret EXCEPT ![p] = get_profile_by_id(profile_id)]
    /\ pc' = [pc EXCEPT ![p] = "done"]
    /\ UNCHANGED <<profVars, txrow, otherThanProfile>>

\* A caller runs get_profile_by_uniquenick.
GetProfileByUniquenick(p, uniquenick) ==
    /\ pc[p] = "idle"
    /\ call' = [call EXCEPT ![p] =
                   [NoCall EXCEPT !.op = "get_profile_by_uniquenick",
                           !.uniquenick = uniquenick]]
    /\ ret' = [ret EXCEPT ![p] = get_profile_by_uniquenick(uniquenick)]
    /\ pc' = [pc EXCEPT ![p] = "done"]
    /\ UNCHANGED <<profVars, txrow, otherThanProfile>>

\* The caller takes its result and is free for the next call.
Return(p) ==
    /\ pc[p] = "done"
    /\ pc' = [pc EXCEPT ![p] = "idle"]
    /\ call' = [call EXCEPT ![p] = NoCall]
    /\ ret' = [ret EXCEPT ![p] = NoRet]
    /\ UNCHANGED <<profVars, txrow, otherThanProfile>>

\* An empty database, the clock at 0, every caller idle.
Init ==
    /\ profiles = {}
    /\ nextProfileId = 1
    /\ creator = [i \in ProfileIds |-> ""]
    /\ pc = [p \in Procs |-> "idle"]
    /\ call = [p \in Procs |-> NoCall]
    /\ txrow = [p \in Procs |-> NoProfile]
    /\ ret = [p \in Procs |-> NoRet]
    /\ sessions = {}
    /\ now = 0
    /\ pending = {}
    /\ nextPendingId = 1
    /\ last = NoLast
    /\ qpc = [p \in Procs |-> "idle"]
    /\ qcall = [p \in Procs |-> NoPendingCall]
    /\ qret = [p \in Procs |-> NoPendingRet]
    /\ natneg = {}
    /\ npc = [p \in Procs |-> "idle"]
    /\ ncall = [p \in Procs |-> NoNatCall]
    /\ ntx = [p \in Procs |-> NoNatTx]
    /\ nret = [p \in Procs |-> NoNatRet]
    /\ servers = {}
    /\ banned = {}
    /\ allow = {}
    /\ deny = {}
    /\ consoles = {}
    /\ cpc = [p \in Procs |-> "idle"]
    /\ ccall = [p \in Procs |-> NoConsoleCall]
    /\ cret = [p \in Procs |-> NoConsoleRet]
    /\ hpc = [p \in Procs |-> "idle"]
    /\ hcall = [p \in Procs |-> NoHeartbeat]
    /\ spc = [p \in Procs |-> "idle"]
    /\ scall = [p \in Procs |-> NoRequest]

NextProfile ==
    \/ \E p \in Procs, u \in UserIds, g \in GameIds, kw \in Kwargs : GocSelect(p, u, g, kw)
    \/ \E p \in Procs : GocInsert(p)
    \/ \E p \in Procs : GocReselect(p)
    \/ \E p \in Procs : GocSaveCfc(p)
    \/ \E p \in Procs : GocCommit(p)
    \/ \E p \in Procs, u \in UserIds, g \in GameIds, kw \in Kwargs : CreateInsert(p, u, g, kw)
    \/ \E p \in Procs : CreateSaveCfc(p)
    \/ \E p \in Procs, i \in ProfileIds : GetProfileById(p, i)
    \/ \E p \in Procs, kw \in Kwargs : GetProfileByUniquenick(p, kw.uniquenick)
    \/ \E p \in Procs : Return(p)

\* Concurrent callers of the profile operations.
SpecProfile == Init /\ [][NextProfile]_vars

\* ------------------------------------------------------------------------
\* Profile creation under concurrency
\* ------------------------------------------------------------------------

\* Finished calls of get_or_create_profile.
GocDone(p) == pc[p] = "done" /\ call[p].op = "get_or_create_profile"

\* C1: whenever callers of get_or_create_profile with the same
\* (user_id, game_id) have finished, whatever the interleaving of their
\* statements was, none of them failed, exactly one Profile row holds that
\* pair and all of them got the same profile_id.
C1_GetOrCreateOneWinner ==
    \A p \in Procs, q \in Procs :
        ( /\ GocDone(p)
          /\ GocDone(q)
          /\ call[p].user_id = call[q].user_id
          /\ call[p].game_id = call[q].game_id )
        => /\ ret[p].err = ""
           /\ ret[q].err = ""
           /\ ret[p].val.profile_id = ret[q].val.profile_id
           /\ ret[p].val.profile_id \in ProfileIds
           /\ Cardinality(ByUserGame(profiles, call[p].user_id, call[p].game_id)) = 1

\* Two callers raced on one pair: one inserted the row, the other's INSERT
\* met the unique constraint and it read the winner's row.
C1_Witness ==
    \E p \in Procs, q \in Procs :
        /\ GocDone(p)
        /\ GocDone(q)
        /\ call[p].user_id = call[q].user_id
        /\ call[p].game_id = call[q].game_id
        /\ call[p].path = "created"
        /\ call[q].path = "reselected"

\* No row inserted by operation op is visible with an empty cfc: not in the
\* committed table, which is what every lookup statement reads, and not in
\* any caller's result.
NeverSeenWithoutCfc(op) ==
    /\ \A i \in ProfileIds :
           LET seen == get_profile_by_id(i).val
           IN  (seen # NoProfile /\ creator[i] = op) => seen.cfc # EmptyCfc
    /\ \A p \in Procs :
           ( /\ pc[p] = "done"
             /\ ret[p].val # NoProfile
             /\ creator[ret[p].val.profile_id] = op )
           => ret[p].val.cfc # EmptyCfc

\* C2: no reader (get_profile_by_id, get_profile_by_uniquenick, another
\* get_or_create_profile) ever sees a profile that get_or_create_profile
\* is creating, or has created, with an empty cfc: the row and its cfc
\* become visible together.
C2_GetOrCreateCfcVisibleWithRow == NeverSeenWithoutCfc("get_or_create_profile")

\* A lookup by id ran while get_or_create_profile held the inserted row in
\* its transaction (cfc still unwritten, or written and uncommitted): it saw
\* no profile at all.
C2_Witness ==
    \E p \in Procs, q \in Procs :
        /\ call[p].op = "get_or_create_profile"
        /\ pc[p] \in {"goc_cfc", "goc_commit"}
        /\ pc[q] = "done"
        /\ call[q].op = "get_profile_by_id"
        /\ call[q].profile_id = call[p].obj.profile_id
        /\ ret[q].val = NoProfile

\* C3: no reader ever sees a profile that create_profile is creating, or
\* has created, with an empty cfc: the INSERT and the cfc write are one
\* atomic unit.
C3_CreateCfcVisibleWithRow == NeverSeenWithoutCfc("create_profile")

\* ------------------------------------------------------------------------
\* Calls with no concurrent caller
\* ------------------------------------------------------------------------

\* Variant: create_session without the profile lookup.
ProfileNotChecked(profile_id) == TRUE

\* Profile.objects.get(profile_id=...) finds a row.
ProfileExists(profile_id) == \E r \in profiles : r.profile_id = profile_id

\* The row Profile.objects.get(profile_id=...) returns, None when absent.
ProfileOf(profile_id) == get_profile_by_id(profile_id).val

\* get_or_create_profile run from BEGIN to COMMIT with no other caller: the
\* stored row of the pair, or a new row with its friend code.
GetOrCreateProfileCall(user_id, game_id, kwargs) ==
    LET got  == Get(ByUserGame(profiles, user_id, game_id))
        args == [NoArgs EXCEPT !.user_id = user_id, !.game_id = game_id]
    IN  /\ IF got.err = "DoesNotExist"
           THEN /\ nextProfileId <= MaxProfileId
                /\ LET new == NewProfile(nextProfileId, user_id, game_id, kwargs)
                       fc  == generate_friend_code(new.profile_id, game_id)
                       row == [new EXCEPT !.cfc = format_friend_code(fc)]
                   IN  /\ profiles' = profiles \cup {row}
                       /\ creator' = [creator EXCEPT ![row.profile_id] =
                                         "get_or_create_profile"]
                       /\ last' = Called("get_or_create_profile", args, "created",
                                         [NoResult EXCEPT !.profile = row])
                /\ nextProfileId' = nextProfileId + 1
           ELSE /\ last' = Called("get_or_create_profile", args, "found",
                                  [NoResult EXCEPT !.profile = got.val])
                /\ UNCHANGED profVars
        /\ UNCHANGED <<procVars, restVars, sessVars, pendVars>>

\* ------------------------------------------------------------------------
\* Sessions
\* ------------------------------------------------------------------------

\* Session(session_key=..., profile=...): login_time is auto_now_add.
NewSession(session_key, profile_id) ==
    [session_key |-> session_key, profile |-> profile_id, login_time |-> now]

\* Session.objects.filter(session_key=...)
SessionsByKey(session_key) == {s \in sessions : s.session_key = session_key}

\* Variant: the boundary counted as active.
is_active_inclusive(s) == s.login_time >= now - IsActiveMinutes

\* Session.is_active: login_time > now - timedelta(minutes=30).
is_active(s) == s.login_time > now - IsActiveMinutes

\* Variant: save() without force_insert, an UPDATE of the row that holds the
\* primary key when there is one.
SessionSave(row) ==
    [err |-> "",
     table |-> {s \in sessions : s.session_key # row.session_key} \cup {row}]

\* Session.objects.create: save(force_insert=True).  session_key is the
\* primary key, so the INSERT of a stored key raises IntegrityError.
SessionInsert(row) ==
    IF SessionsByKey(row.session_key) # {}
    THEN [err |-> "IntegrityError", table |-> sessions]
    ELSE [err |-> "", table |-> sessions \cup {row}]

\* DatabaseManager.create_session; session_key is what generate_session_key
\* (secrets.token_hex) returned.
CreateSession(profile_id, session_key) ==
    LET args == [NoArgs EXCEPT !.profile_id = profile_id, !.session_key = session_key]
    IN  /\ IF ~ProfileExists(profile_id)
           THEN /\ last' = Called("create_session", args, "DoesNotExist", NoResult)
                /\ sessions' = sessions
           ELSE LET ins == SessionInsert(NewSession(session_key, profile_id))
                IN  /\ sessions' = ins.table
                    /\ last' = IF ins.err # ""
                               THEN Called("create_session", args, ins.err, NoResult)
                               ELSE Called("create_session", args, "ok",
                                           [NoResult EXCEPT !.key = session_key])
        /\ UNCHANGED <<profVars, procVars, restVars, now, pendVars>>

\* Variant: a lookup that hides expired sessions.
get_session_if_active(session_key) ==
    LET rows == {s \in SessionsByKey(session_key) : is_active(s)}
    IN  IF rows = {} THEN NoSession ELSE CHOOSE s \in rows : TRUE

\* DatabaseManager.get_session: the row with that key, None when absent.
get_session(session_key) ==
    LET rows == SessionsByKey(session_key)
    IN  IF rows = {} THEN NoSession ELSE CHOOSE s \in rows : TRUE

\* DatabaseManager.get_profile_from_session: session.profile, None without
\* a session.
get_profile_from_session(session_key) ==
    LET session == get_session(session_key)
    IN  IF session = NoSession THEN NoProfile ELSE ProfileOf(session.profile)

\* A call of get_session.
GetSession(session_key) ==
    /\ last' = Called("get_session", [NoArgs EXCEPT !.session_key = session_key], "ok",
                      [NoResult EXCEPT !.session = get_session(session_key)])
    /\ UNCHANGED <<profVars, procVars, restVars, sessVars, pendVars>>

\* A call of get_profile_from_session.
GetProfileFromSession(session_key) ==
    /\ last' = Called("get_profile_from_session",
                      [NoArgs EXCEPT !.session_key = session_key], "ok",
                      [NoResult EXCEPT !.profile = get_profile_from_session(session_key)])
    /\ UNCHANGED <<profVars, procVars, restVars, sessVars, pendVars>>

\* Variant: delete_session that reports success whatever it deleted.
DeleteSessionAlwaysTrue(session_key) ==
    /\ sessions' = sessions \ SessionsByKey(session_key)
    /\ last' = Called("delete_session", [NoArgs EXCEPT !.session_key = session_key],
                      "ok", [NoResult EXCEPT !.ok = TRUE])
    /\ UNCHANGED <<profVars, procVars, restVars, now, pendVars>>

\* DatabaseManager.delete_session: filter(session_key=...).delete(), then
\* deleted > 0.
DeleteSession(session_key) ==
    LET deleted == SessionsByKey(session_key)
    IN  /\ sessions' = sessions \ deleted
        /\ last' = Called("delete_session",
                          [NoArgs EXCEPT !.session_key = session_key], "ok",
                          [NoResult EXCEPT !.ok = (Cardinality(deleted) > 0)])
        /\ UNCHANGED <<profVars, procVars, restVars, now, pendVars>>

\* Variant: login_time__lte.
OlderOrAt(threshold) == {s \in sessions : s.login_time <= threshold}

\* Session.objects.filter(login_time__lt=threshold)
OlderThan(threshold) == {s \in sessions : s.login_time < threshold}

\* DatabaseManager.cleanup_old_sessions
CleanupOldSessions(max_age_minutes) ==
    LET threshold == now - max_age_minutes
        deleted   == OlderThan(threshold)
    IN  /\ sessions' = sessions \ deleted
        /\ last' = Called("cleanup_old_sessions",
                          [NoArgs EXCEPT !.minutes = max_age_minutes], "ok",
                          [NoResult EXCEPT !.count = Cardinality(deleted)])
        /\ UNCHANGED <<profVars, procVars, restVars, now, pendVars>>

\* Time passes between two calls.
Tick(d) ==
    /\ now + d <= MaxNow
    /\ now' = now + d
    /\ last' = Called("tick", [NoArgs EXCEPT !.minutes = d], "ok", NoResult)
    /\ UNCHANGED <<profVars, procVars, restVars, sessions, pendVars>>

NextSession ==
    \/ \E u \in UserIds, g \in GameIds : GetOrCreateProfileCall(u, g, DefaultKwargs)
    \/ \E i \in ProfileIds, k \in SessionKeys : CreateSession(i, k)
    \/ \E k \in SessionKeys : GetSession(k)
    \/ \E k \in SessionKeys : GetProfileFromSession(k)
    \/ \E k \in SessionKeys : DeleteSession(k)
    \/ \E m \in MaxAges : CleanupOldSessions(m)
    \/ \E d \in TickSteps : Tick(d)

\* The session operations, called one after the other.
SpecSession == Init /\ [][NextSession]_vars

\* ------------------------------------------------------------------------
\* Session properties
\* ------------------------------------------------------------------------

\* Session keys of a table.
KeysOf(table) == {s.session_key : s \in table}

\* Primary keys of the stored profiles.
StoredProfileIds == {r.profile_id : r \in profiles}

\* C4: create_session never overwrites or re-binds a stored session: when
\* the generated key is the key of a stored session the INSERT fails with
\* IntegrityError and the stored session keeps its profile and login_time;
\* no session key is ever held by two rows.
C4_CreateSessionNeverOverwrites ==
    [][ /\ \A k \in SessionKeys :
               Cardinality({s \in sessions' : s.session_key = k}) <= 1
        /\ last'.op = "create_session" =>
               /\ \A s \in sessions : s \in sessions'
               /\ ( /\ last'.args.profile_id \in StoredProfileIds
                    /\ last'.args.session_key \in KeysOf(sessions) )
                  => /\ last'.path = "IntegrityError"
                     /\ sessions' = sessions ]_vars

\* create_session drew the key of a stored session that belongs to another
\* profile and was created earlier.
C4_Witness ==
    /\ last.op = "create_session"
    /\ last.path = "IntegrityError"
    /\ \E s \in sessions :
           /\ s.session_key = last.args.session_key
           /\ s.profile # last.args.profile_id
           /\ s.login_time < now

\* C5: a stored session is active iff now - login_time < 30 minutes; at
\* exactly 30 minutes it is inactive.
C5_IsActiveIffYoungerThan30 ==
    \A s \in sessions : is_active(s) <=> (now - s.login_time < 30)

\* A session of age exactly 30 minutes is stored, and it is inactive.
C5_Witness == \E s \in sessions : now - s.login_time = 30 /\ ~is_active(s)

\* C6: get_session and get_profile_from_session find every stored key,
\* whatever the session's age, return the session / its owning profile,
\* return None exactly when no row has the key, and change no row.
C6_ResolveIgnoresAge ==
    [][ LET rows == {s \in sessions : s.session_key = last'.args.session_key}
        IN  /\ last'.op = "get_session" =>
                   /\ sessions' = sessions
                   /\ profiles' = profiles
                   /\ IF rows = {} THEN last'.ret.session = NoSession
                                   ELSE last'.ret.session \in rows
            /\ last'.op = "get_profile_from_session" =>
                   /\ sessions' = sessions
                   /\ profiles' = profiles
                   /\ IF rows = {} THEN last'.ret.profile = NoProfile
                      ELSE /\ last'.ret.profile \in profiles
                           /\ \E s \in rows :
                                  s.profile = last'.ret.profile.profile_id ]_vars

\* get_profile_from_session returned the owner of a session older than 30
\* minutes.
C6_Witness ==
    /\ last.op = "get_profile_from_session"
    /\ last.ret.profile # NoProfile
    /\ \E s \in sessions :
           /\ s.session_key = last.args.session_key
           /\ now - s.login_time > 30
           /\ s.profile = last.ret.profile.profile_id

\* What create_session does for a profile that is not stored: DoesNotExist,
\* and the sessions stay as they are.
CreateSessionNotFound ==
    /\ last'.path = "DoesNotExist"
    /\ sessions' = sessions

\* What create_session does when it adds a session: exactly one new row,
\* bound to the profile, under the returned key.
CreateSessionAdded ==
    /\ last'.path = "ok"
    /\ \E s \in sessions' \ sessions :
           /\ sessions' = sessions \cup {s}
           /\ s.profile = last'.args.profile_id
           /\ s.session_key = last'.ret.key
           /\ s.login_time = now

\* C7 as stated: create_session of a profile that is not stored fails with
\* DoesNotExist and leaves the sessions unchanged; for a stored profile it
\* adds exactly one new session bound to that profile and returns its key.
C7_CreateSessionAlwaysAdds ==
    [][ last'.op = "create_session" =>
            IF last'.args.profile_id \notin StoredProfileIds
            THEN CreateSessionNotFound
            ELSE CreateSessionAdded ]_vars

\* C7: create_session of a profile that is not stored fails with
\* DoesNotExist and leaves the sessions unchanged; for a stored profile it
\* adds exactly one new session bound to that profile and returns its key,
\* unless the generated key is the key of a stored session: then it fails
\* with IntegrityError and leaves the sessions unchanged.
C7_CreateSessionAddsUnlessCollision ==
    [][ last'.op = "create_session" =>
            IF last'.args.profile_id \notin StoredProfileIds
            THEN CreateSessionNotFound
            ELSE IF last'.args.session_key \in KeysOf(sessions)
                 THEN /\ last'.path = "IntegrityError"
                      /\ sessions' = sessions
                 ELSE CreateSessionAdded ]_vars

\* create_session ran for a profile that is not stored while another
\* profile is, and sessions exist.
C7_Witness ==
    /\ last.op = "create_session"
    /\ last.path = "DoesNotExist"
    /\ last.args.profile_id \notin StoredProfileIds
    /\ StoredProfileIds # {}
    /\ sessions # {}

\* C8: delete_session returns TRUE and removes exactly the session with the
\* key when it is stored, returns FALSE and changes nothing when it is not;
\* a delete_session of the same key right after a successful one returns
\* FALSE.
C8_DeleteSessionIdempotent ==
    [][ last'.op = "delete_session" =>
            LET rows == {s \in sessions : s.session_key = last'.args.session_key}
            IN  /\ last'.ret.ok = (rows # {})
                /\ Cardinality(rows) <= 1
                /\ sessions' = sessions \ rows
                /\ profiles' = profiles
                /\ ( /\ last.op = "delete_session"
                     /\ last.args.session_key = last'.args.session_key
                     /\ last.ret.ok )
                   => /\ ~last'.ret.ok
                      /\ sessions' = sessions ]_vars

\* A delete_session that found nothing to delete, right after a
\* delete_session of the same key that removed the session, while other
\* sessions are stored.
C8_Witness ==
    /\ last.op = "delete_session"
    /\ ~last.ret.ok
    /\ last.prev.same
    /\ last.prev.ret.ok
    /\ sessions # {}

\* C9: cleanup_old_sessions(max_age) deletes exactly the sessions with
\* now - login_time > max_age minutes, returns how many it deleted, and
\* leaves every other session and every profile unchanged.
C9_CleanupDeletesExactlyOlder ==
    [][ last'.op = "cleanup_old_sessions" =>
            LET old == {s \in sessions : now - s.login_time > last'.args.minutes}
            IN  /\ sessions' = sessions \ old
                /\ last'.ret.count = Cardinality(old)
                /\ profiles' = profiles
                /\ now' = now ]_vars

\* A sweep deleted a session and kept one whose age is exactly max_age.
C9_Witness ==
    /\ last.op = "cleanup_old_sessions"
    /\ last.ret.count > 0
    /\ \E s \in sessions : now - s.login_time = last.args.minutes

\* ------------------------------------------------------------------------
\* Matchmaking queue
\* ------------------------------------------------------------------------

\* Pending(profile=..., group_id=...) with primary key id; created_at is
\* auto_now_add.
NewPending(id, profile_id, group_id) ==
    [id |-> id, profile |-> profile_id, group_id |-> group_id, created_at |-> now]

\* Pending.objects.filter(profile__profile_id=..., group_id=...)
PendingBy(profile_id, group_id) ==
    {r \in pending : r.profile = profile_id /\ r.group_id = group_id}

\* Variant: a plain INSERT into a table without the unique constraint.
PendingCreate(profile_id, group_id) ==
    [err |-> "", created |-> TRUE,
     row |-> NewPending(nextPendingId, profile_id, group_id)]

\* Pending.objects.get_or_create(profile=..., group_id=...): the stored row
\* of the pair, a new row when there is none.
PendingGetOrCreate(profile_id, group_id) ==
    LET rows == PendingBy(profile_id, group_id)
    IN  IF rows = {}
        THEN [err |-> "", created |-> TRUE,
              row |-> NewPending(nextPendingId, profile_id, group_id)]
        ELSE IF Cardinality(rows) > 1
             THEN [err |-> "MultipleObjectsReturned", created |-> FALSE,
                   row |-> NoPending]
             ELSE [err |-> "", created |-> FALSE, row |-> CHOOSE r \in rows : TRUE]

\* DatabaseManager.add_to_pending
AddToPending(profile_id, group_id) ==
    LET args == [NoArgs EXCEPT !.profile_id = profile_id, !.group_id = group_id]
    IN  /\ IF ~ProfileExists(profile_id)
           THEN /\ last' = Called("add_to_pending", args, "DoesNotExist", NoResult)
                /\ UNCHANGED pendVars
           ELSE LET goc == PendingGetOrCreate(profile_id, group_id)
                IN  IF goc.err # ""
                    THEN /\ last' = Called("add_to_pending", args, goc.err, NoResult)
                         /\ UNCHANGED pendVars
                    ELSE IF goc.created
                         THEN /\ nextPendingId <= MaxPendingId
                              /\ pending' = pending \cup {goc.row}
                              /\ nextPendingId' = nextPendingId + 1
                              /\ last' = Called("add_to_pending", args, "created",
                                                [NoResult EXCEPT !.pending = goc.row])
                         ELSE /\ last' = Called("add_to_pending", args, "found",
                                                [NoResult EXCEPT !.pending = goc.row])
                              /\ UNCHANGED pendVars
        /\ UNCHANGED <<profVars, procVars, restVars, sessVars>>

\* DatabaseManager.remove_from_pending: filter(...).delete(), then
\* deleted > 0.
RemoveFromPending(profile_id, group_id) ==
    LET deleted == PendingBy(profile_id, group_id)
    IN  /\ pending' = pending \ deleted
        /\ last' = Called("remove_from_pending",
                          [NoArgs EXCEPT !.profile_id = profile_id,
                                         !.group_id = group_id], "ok",
                          [NoResult EXCEPT !.ok = (Cardinality(deleted) > 0)])
        /\ UNCHANGED <<profVars, procVars, restVars, sessVars, nextPendingId>>

NextPending ==
    \/ \E u \in UserIds, g \in GameIds : GetOrCreateProfileCall(u, g, DefaultKwargs)
    \/ \E i \in ProfileIds, g \in GroupIds : AddToPending(i, g)
    \/ \E i \in ProfileIds, g \in GroupIds : RemoveFromPending(i, g)
    \/ \E d \in TickSteps : Tick(d)

\* The matchmaking-queue operations, called one after the other.
SpecPending == Init /\ [][NextPending]_vars

\* ------------------------------------------------------------------------
\* Matchmaking-queue properties
\* ------------------------------------------------------------------------

\* C10: for a stored profile p and a group g, add_to_pending(p, g) leaves
\* exactly one Pending row of the pair and returns it, and called again it
\* returns the same entry as the first call; remove_from_pending(p, g)
\* returns TRUE and removes the row when there is one, and called again it
\* returns FALSE.
C10_AddTwiceOneRowRemoveTwice ==
    [][ LET p      == last'.args.profile_id
            g      == last'.args.group_id
            before == {r \in pending : r.profile = p /\ r.group_id = g}
            after  == {r \in pending' : r.profile = p /\ r.group_id = g}
        IN  /\ (last'.op = "add_to_pending" /\ p \in StoredProfileIds) =>
                   /\ Cardinality(after) = 1
                   /\ last'.ret.pending \in after
                   /\ before # {} => pending' = pending
                   /\ pending' \ after = pending \ before
                   /\ last'.prev.same => last'.ret.pending = last'.prev.ret.pending
            /\ last'.op = "remove_from_pending" =>
                   /\ last'.ret.ok = (before # {})
                   /\ pending' = pending \ before
                   /\ (last'.prev.same /\ last'.prev.ret.ok) => ~last'.ret.ok ]_vars

\* add_to_pending was called twice in a row for one pair: the second call
\* found the row of the first and returned it, and it is the pair's only row.
C10_Witness ==
    /\ last.op = "add_to_pending"
    /\ last.prev.same
    /\ last.path = "found"
    /\ last.ret.pending # NoPending
    /\ last.ret.pending = last.prev.ret.pending
    /\ PendingBy(last.args.profile_id, last.args.group_id) = {last.ret.pending}

\* ------------------------------------------------------------------------
\* Matchmaking queue, one ORM statement per step
\* ------------------------------------------------------------------------

\* What the concurrent matchmaking operations never touch.
otherThanPending ==
    <<profVars, procVars, sessVars, last, natneg, natProcVars, servers, aclVars,
      consVars, hbVars, reqVars>>

\* Pending.Meta.unique_together = ['profile', 'group_id']: an INSERT of the
\* pair is refused (IntegrityError) when a row holds it.
PendingUniqueViolated(profile_id, group_id) == PendingBy(profile_id, group_id) # {}

\* add_to_pending: Profile.objects.get(profile_id=...); DoesNotExist is
\* raised to the caller.
AddGetProfile(p, profile_id, group_id) ==
    /\ qpc[p] = "idle"
    /\ IF ~ProfileExists(profile_id)
       THEN /\ qcall' = [qcall EXCEPT ![p] =
                            [op |-> "add_to_pending", profile_id |-> profile_id,
                             group_id |-> group_id, path |-> "DoesNotExist"]]
            /\ qret' = [qret EXCEPT ![p] = [NoPendingRet EXCEPT !.err = "DoesNotExist"]]
            /\ qpc' = [qpc EXCEPT ![p] = "done"]
       ELSE /\ qcall' = [qcall EXCEPT ![p] =
                            [op |-> "add_to_pending", profile_id |-> profile_id,
                             group_id |-> group_id, path |-> ""]]
            /\ qret' = qret
            /\ qpc' = [qpc EXCEPT ![p] = "add_select"]
    /\ UNCHANGED <<pendVars, otherThanPending>>

\* add_to_pending: the SELECT of Pending.objects.get_or_create.  A hit is
\* returned; only DoesNotExist leads to the INSERT.
AddSelect(p) ==
    /\ qpc[p] = "add_select"
    /\ LET rows == PendingBy(qcall[p].profile_id, qcall[p].group_id)
       IN  IF rows = {}
           THEN /\ qpc' = [qpc EXCEPT ![p] = "add_insert"]
                /\ UNCHANGED <<qcall, qret>>
           ELSE /\ qpc' = [qpc EXCEPT ![p] = "done"]
                /\ qcall' = [qcall EXCEPT ![p].path = "found"]
                /\ qret' = [qret EXCEPT ![p] =
                               IF Cardinality(rows) > 1
                               THEN [NoPendingRet EXCEPT !.err = "MultipleObjectsReturned"]
                               ELSE [NoPendingRet EXCEPT !.pending = CHOOSE r \in rows : TRUE]]
    /\ UNCHANGED <<pendVars, otherThanPending>>

\* add_to_pending: the INSERT of get_or_create, committed by itself.  A
\* unique violation is caught and leads to a second SELECT.
AddInsert(p) ==
    /\ qpc[p] = "add_insert"
    /\ IF PendingUniqueViolated(qcall[p].profile_id, qcall[p].group_id)
       THEN /\ qpc' = [qpc EXCEPT ![p] = "add_reselect"]
            /\ qcall' = [qcall EXCEPT ![p].path = "conflict"]
            /\ UNCHANGED <<qret, pendVars>>
       ELSE /\ nextPendingId <= MaxPendingId
            /\ LET row == NewPending(nextPendingId, qcall[p].profile_id,
                                     qcall[p].group_id)
               IN  /\ pending' = pending \cup {row}
                   /\ qret' = [qret EXCEPT ![p] = [NoPendingRet EXCEPT !.pending = row]]
            /\ nextPendingId' = nextPendingId + 1
            /\ qcall' = [qcall EXCEPT ![p].path = "created"]
            /\ qpc' = [qpc EXCEPT ![p] = "done"]
    /\ UNCHANGED otherThanPending

\* add_to_pending: the SELECT get_or_create runs after an IntegrityError;
\* when it finds nothing the IntegrityError is raised to the caller.
AddReselect(p) ==
    /\ qpc[p] = "add_reselect"
    /\ LET rows == PendingBy(qcall[p].profile_id, qcall[p].group_id)
       IN  qret' = [qret EXCEPT ![p] =
                       IF rows = {}
                       THEN [NoPendingRet EXCEPT !.err = "IntegrityError"]
                       ELSE IF Cardinality(rows) > 1
                            THEN [NoPendingRet EXCEPT !.err = "MultipleObjectsReturned"]
                            ELSE [NoPendingRet EXCEPT !.pending = CHOOSE r \in rows : TRUE]]
    /\ qcall' = [qcall EXCEPT ![p].path = "reselected"]
    /\ qpc' = [qpc EXCEPT ![p] = "done"]
    /\ UNCHANGED <<pendVars, otherThanPending>>

\* remove_from_pending: one DELETE statement, then deleted > 0.
RemoveStatement(p, profile_id, group_id) ==
    /\ qpc[p] = "idle"
    /\ LET deleted == PendingBy(profile_id, group_id)
       IN  /\ pending' = pending \ deleted
           /\ qret' = [qret EXCEPT ![p] =
                          [NoPendingRet EXCEPT !.ok = (Cardinality(deleted) > 0)]]
    /\ qcall' = [qcall EXCEPT ![p] =
                    [op |-> "remove_from_pending", profile_id |-> profile_id,
                     group_id |-> group_id, path |-> "ok"]]
    /\ qpc' = [qpc EXCEPT ![p] = "done"]
    /\ UNCHANGED <<nextPendingId, otherThanPending>>

\* The caller takes its result and is free for the next call.
PendingReturn(p) ==
    /\ qpc[p] = "done"
    /\ qpc' = [qpc EXCEPT ![p] = "idle"]
    /\ qcall' = [qcall EXCEPT ![p] = NoPendingCall]
    /\ qret' = [qret EXCEPT ![p] = NoPendingRet]
    /\ UNCHANGED <<pendVars, otherThanPending>>

NextPendingRace ==
    \/ \E u \in UserIds, g \in GameIds : GetOrCreateProfileCall(u, g, DefaultKwargs)
    \/ \E p \in Procs, i \in ProfileIds, g \in GroupIds : AddGetProfile(p, i, g)
    \/ \E p \in Procs : AddSelect(p)
    \/ \E p \in Procs : AddInsert(p)
    \/ \E p \in Procs : AddReselect(p)
    \/ \E p \in Procs, i \in ProfileIds, g \in GroupIds : RemoveStatement(p, i, g)
    \/ \E p \in Procs : PendingReturn(p)

\* Concurrent callers of the matchmaking-queue operations.
SpecPendingRace == Init /\ [][NextPendingRace]_vars

\* C11: in every reachable state, with add_to_pending calls for one
\* (profile, group) running concurrently and interleaved with
\* remove_from_pending, at most one Pending row holds each
\* (profile_id, group_id), and no add_to_pending call that found its
\* profile fails.
C11_OnePendingPerPairNoAddFails ==
    /\ \A i \in ProfileIds, g \in GroupIds : Cardinality(PendingBy(i, g)) <= 1
    /\ \A p \in Procs :
           ( /\ qpc[p] = "done"
             /\ qcall[p].op = "add_to_pending"
             /\ qcall[p].path # "DoesNotExist" )
           => qret[p].err = ""

\* ------------------------------------------------------------------------
\* NAT negotiation
\* ------------------------------------------------------------------------

\* What the NAT operations called one after the other never touch.
otherThanNatneg ==
    <<profVars, procVars, sessions, pendVars, pendProcVars, natProcVars,
      servers, aclVars, consVars, hbVars, reqVars>>

\* NatNeg(cookie=..., client_addr=..., client_port=...); created_at is
\* auto_now_add.
NewNatNeg(cookie, client_addr, client_port) ==
    [cookie |-> cookie, client_addr |-> client_addr, client_port |-> client_port,
     created_at |-> now]

\* NatNeg.objects.filter(cookie=...)
NatNegByCookie(cookie) == {r \in natneg : r.cookie = cookie}

\* Variant: the defaults written one field short.
SetAddrOnly(row, client_addr, client_port) == [row EXCEPT !.client_addr = client_addr]

\* update_or_create on a stored row: every field of defaults is set on the
\* instance, and one save() writes them.
SetDefaults(row, client_addr, client_port) ==
    [row EXCEPT !.client_addr = client_addr, !.client_port = client_port]

\* Variant: a plain INSERT into a table where cookie is no key.
NatNegAppend(cookie, client_addr, client_port) ==
    LET row == NewNatNeg(cookie, client_addr, client_port)
    IN  [created |-> TRUE, row |-> row, table |-> natneg \cup {row}]

\* NatNeg.objects.update_or_create(cookie=..., defaults={...}) with no
\* concurrent caller: the stored row of the cookie rewritten, or a new row.
NatNegUpdateOrCreate(cookie, client_addr, client_port) ==
    LET rows == NatNegByCookie(cookie)
    IN  IF rows = {}
        THEN LET row == NewNatNeg(cookie, client_addr, client_port)
             IN  [created |-> TRUE, row |-> row, table |-> natneg \cup {row}]
        ELSE LET old == CHOOSE r \in rows : TRUE
                 row == SetDefaults(old, client_addr, client_port)
             IN  [created |-> FALSE, row |-> row,
                  table |-> (natneg \ {old}) \cup {row}]

\* DatabaseManager.create_natneg
CreateNatneg(cookie, client_addr, client_port) ==
    LET uoc == NatNegUpdateOrCreate(cookie, client_addr, client_port)
    IN  /\ natneg' = uoc.table
        /\ last' = Called("create_natneg",
                          [NoArgs EXCEPT !.cookie = cookie,
                                         !.client_addr = client_addr,
                                         !.client_port = client_port],
                          IF uoc.created THEN "created" ELSE "updated",
                          [NoResult EXCEPT !.natneg = uoc.row])
        /\ UNCHANGED <<now, otherThanNatneg>>

\* DatabaseManager.get_natneg: the row of the cookie, None when absent.
get_natneg(cookie) ==
    LET rows == NatNegByCookie(cookie)
    IN  IF rows = {} THEN NoNatNeg ELSE CHOOSE r \in rows : TRUE

\* A call of get_natneg.
GetNatneg(cookie) ==
    /\ last' = Called("get_natneg", [NoArgs EXCEPT !.cookie = cookie], "ok",
                      [NoResult EXCEPT !.natneg = get_natneg(cookie)])
    /\ UNCHANGED <<natneg, now, otherThanNatneg>>

\* DatabaseManager.delete_natneg: filter(cookie=...).delete(), then
\* deleted > 0.
DeleteNatneg(cookie) ==
    LET deleted == NatNegByCookie(cookie)
    IN  /\ natneg' = natneg \ deleted
        /\ last' = Called("delete_natneg", [NoArgs EXCEPT !.cookie = cookie], "ok",
                          [NoResult EXCEPT !.ok = (Cardinality(deleted) > 0)])
        /\ UNCHANGED <<now, otherThanNatneg>>

NextNatNeg ==
    \/ \E c \in Cookies, a \in ClientAddrs, n \in ClientPorts : CreateNatneg(c, a, n)
    \/ \E c \in Cookies : GetNatneg(c)
    \/ \E c \in Cookies : DeleteNatneg(c)
    \/ \E d \in TickSteps : Tick(d)

\* The NAT operations, called one after the other.
SpecNatNeg == Init /\ [][NextNatNeg]_vars

\* C12: create_natneg is an upsert: it leaves exactly one row for the
\* cookie, holding the address and port of the call, whether or not the
\* cookie was stored, and touches no other cookie; a get_natneg of the
\* cookie right after returns that address and port; no cookie is ever
\* held by two rows.
C12_CreateNatnegUpsert ==
    [][ LET c      == last'.args.cookie
            before == {r \in natneg : r.cookie = c}
            after  == {r \in natneg' : r.cookie = c}
        IN  /\ \A k \in Cookies : Cardinality({r \in natneg' : r.cookie = k}) <= 1
            /\ last'.op = "create_natneg" =>
                   /\ Cardinality(after) = 1
                   /\ \A r \in after :
                          /\ r.client_addr = last'.args.client_addr
                          /\ r.client_port = last'.args.client_port
                          /\ last'.ret.natneg = r
                   /\ natneg' \ after = natneg \ before
            /\ last'.op = "get_natneg" =>
                   /\ natneg' = natneg
                   /\ IF before = {} THEN last'.ret.natneg = NoNatNeg
                                     ELSE last'.ret.natneg \in before
                   /\ (last.op = "create_natneg" /\ last.args.cookie = c) =>
                          /\ last'.ret.natneg.client_addr = last.args.client_addr
                          /\ last'.ret.natneg.client_port = last.args.client_port ]_vars

\* A cookie stored earlier was registered again with another address and
\* another port: its single row now holds the new pair, and kept its
\* created_at.
C12_Witness ==
    /\ last.op = "create_natneg"
    /\ last.path = "updated"
    /\ last.ret.natneg.created_at < now
    /\ NatNegByCookie(last.args.cookie) =
           {[cookie |-> last.args.cookie, client_addr |-> "2.2.2.2",
             client_port |-> 2000, created_at |-> last.ret.natneg.created_at]}
    /\ Cardinality(natneg) = 2

\* ------------------------------------------------------------------------
\* NAT negotiation, one ORM statement per step
\* ------------------------------------------------------------------------

\* The (address, port) pairs concurrent clients register.
Endpoints == {<<"1.1.1.1", 1000>>, <<"2.2.2.2", 2000>>}

\* What the concurrent NAT operations never touch.
otherThanNatRace ==
    <<profVars, procVars, sessVars, pendVars, pendProcVars, last, servers, aclVars,
      consVars, hbVars, reqVars>>

\* select_for_update(): the row of the cookie is locked by another caller's
\* open transaction.
RowLocked(p, cookie) == \E q \in Procs \ {p} : cookie \in ntx[q].lock

\* An INSERT of the cookie waits while another caller's open transaction
\* holds an uncommitted write of it.
NatInsertBlocked(p, cookie) ==
    \E q \in Procs \ {p} : ntx[q].row # NoNatNeg /\ ntx[q].row.cookie = cookie

\* cookie is the primary key: an INSERT of a stored cookie is refused
\* (IntegrityError).
CookieTaken(cookie) == NatNegByCookie(cookie) # {}

\* create_natneg: BEGIN, then the SELECT ... FOR UPDATE of update_or_create.
\* A hit is locked and goes on to be rewritten; a miss leads to the INSERT.
NnSelect(p, cookie, client_addr, client_port) ==
    /\ npc[p] = "idle"
    /\ LET rows == NatNegByCookie(cookie)
           c    == [NoNatCall EXCEPT !.op = "create_natneg", !.cookie = cookie,
                                     !.client_addr = client_addr,
                                     !.client_port = client_port]
       IN  IF rows = {}
           THEN /\ ncall' = [ncall EXCEPT ![p] = c]
                /\ npc' = [npc EXCEPT ![p] = "nn_insert"]
                /\ ntx' = ntx
           ELSE /\ ~RowLocked(p, cookie)
                /\ ncall' = [ncall EXCEPT ![p] =
                                [c EXCEPT !.obj = CHOOSE r \in rows : TRUE,
                                          !.path = "found"]]
                /\ ntx' = [ntx EXCEPT ![p].lock = {cookie}]
                /\ npc' = [npc EXCEPT ![p] = "nn_update"]
    /\ UNCHANGED <<natneg, nret, otherThanNatRace>>

\* create_natneg: the INSERT of get_or_create inside update_or_create, with
\* the defaults.  A unique violation is caught and leads to a second SELECT.
NnInsert(p) ==
    /\ npc[p] = "nn_insert"
    /\ ~NatInsertBlocked(p, ncall[p].cookie)
    /\ IF CookieTaken(ncall[p].cookie)
       THEN /\ npc' = [npc EXCEPT ![p] = "nn_reselect"]
            /\ ncall' = [ncall EXCEPT ![p].path = "conflict"]
            /\ ntx' = ntx
       ELSE LET row == NewNatNeg(ncall[p].cookie, ncall[p].client_addr,
                                 ncall[p].client_port)
            IN  /\ ntx' = [ntx EXCEPT ![p].row = row]
                /\ ncall' = [ncall EXCEPT ![p].obj = row, ![p].path = "created"]
                /\ npc' = [npc EXCEPT ![p] = "nn_commit"]
    /\ UNCHANGED <<natneg, nret, otherThanNatRace>>

\* create_natneg: the SELECT ... FOR UPDATE that get_or_create runs after an
\* IntegrityError; when it finds nothing the IntegrityError is raised and
\* the transaction is rolled back.
NnReselect(p) ==
    /\ npc[p] = "nn_reselect"
    /\ LET rows == NatNegByCookie(ncall[p].cookie)
       IN  IF rows = {}
           THEN /\ nret' = [nret EXCEPT ![p] = [NoNatRet EXCEPT !.err = "IntegrityError"]]
                /\ npc' = [npc EXCEPT ![p] = "done"]
                /\ UNCHANGED <<ncall, ntx>>
           ELSE /\ ~RowLocked(p, ncall[p].cookie)
                /\ ncall' = [ncall EXCEPT ![p].obj = CHOOSE r \in rows : TRUE]
                /\ ntx' = [ntx EXCEPT ![p].lock = {ncall[p].cookie}]
                /\ npc' = [npc EXCEPT ![p] = "nn_update"]
                /\ nret' = nret
    /\ UNCHANGED <<natneg, otherThanNatRace>>

\* create_natneg, row not created: setattr of every default, then save().
NnUpdate(p) ==
    /\ npc[p] = "nn_update"
    /\ LET row == SetDefaults(ncall[p].obj, ncall[p].client_addr, ncall[p].client_port)
       IN  /\ ntx' = [ntx EXCEPT ![p].row = row]
           /\ ncall' = [ncall EXCEPT ![p].obj = row]
    /\ npc' = [npc EXCEPT ![p] = "nn_commit"]
    /\ UNCHANGED <<natneg, nret, otherThanNatRace>>

\* create_natneg: leaving the atomic block commits the write and releases
\* the lock; the instance is returned.
NnCommit(p) ==
    /\ npc[p] = "nn_commit"
    /\ natneg' = (natneg \ NatNegByCookie(ncall[p].cookie)) \cup {ntx[p].row}
    /\ ntx' = [ntx EXCEPT ![p] = NoNatTx]
    /\ nret' = [nret EXCEPT ![p] = [NoNatRet EXCEPT !.natneg = ncall[p].obj]]
    /\ npc' = [npc EXCEPT ![p] = "done"]
    /\ UNCHANGED <<ncall, otherThanNatRace>>

\* A caller runs get_natneg: one SELECT of the committed rows.
NnGet(p, cookie) ==
    /\ npc[p] = "idle"
    /\ ncall' = [ncall EXCEPT ![p] =
                    [NoNatCall EXCEPT !.op = "get_natneg", !.cookie = cookie]]
    /\ nret' = [nret EXCEPT ![p] = [NoNatRet EXCEPT !.natneg = get_natneg(cookie)]]
    /\ npc' = [npc EXCEPT ![p] = "done"]
    /\ UNCHANGED <<natneg, ntx, otherThanNatRace>>

\* The caller takes its result and is free for the next call.
NnReturn(p) ==
    /\ npc[p] = "done"
    /\ npc' = [npc EXCEPT ![p] = "idle"]
    /\ ncall' = [ncall EXCEPT ![p] = NoNatCall]
    /\ nret' = [nret EXCEPT ![p] = NoNatRet]
    /\ UNCHANGED <<natneg, ntx, otherThanNatRace>>

NextNatRace ==
    \/ \E p \in Procs, c \in Cookies, e \in Endpoints : NnSelect(p, c, e[1], e[2])
    \/ \E p \in Procs : NnInsert(p)
    \/ \E p \in Procs : NnReselect(p)
    \/ \E p \in Procs : NnUpdate(p)
    \/ \E p \in Procs : NnCommit(p)
    \/ \E p \in Procs, c \in Cookies : NnGet(p, c)
    \/ \E p \in Procs : NnReturn(p)

\* Concurrent callers of create_natneg and get_natneg.
SpecNatRace == Init /\ [][NextNatRace]_vars

\* C13: with create_natneg calls for one cookie running concurrently with
\* different endpoints, in every interleaving every call succeeds and
\* returns its own pair, the stored rows change only when a call commits,
\* the mapping stored right after a commit is exactly the committing
\* caller's (address, port), and no stored row ever combines the address of
\* one caller with the port of another.
C13_ConcurrentCreateNatnegOneWins ==
    [][ /\ \A r \in natneg' : <<r.client_addr, r.client_port>> \in Endpoints
        /\ \A c \in Cookies : Cardinality({r \in natneg' : r.cookie = c}) <= 1
        /\ \A p \in Procs :
               (npc'[p] = "done" /\ ncall'[p].op = "create_natneg") =>
                   /\ nret'[p].err = ""
                   /\ nret'[p].natneg.cookie = ncall'[p].cookie
                   /\ nret'[p].natneg.client_addr = ncall'[p].client_addr
                   /\ nret'[p].natneg.client_port = ncall'[p].client_port
        /\ \A p \in Procs :
               (npc[p] = "nn_commit" /\ npc'[p] = "done") =>
                   \E r \in natneg' :
                       /\ {s \in natneg' : s.cookie = ncall[p].cookie} = {r}
                       /\ r.client_addr = ncall[p].client_addr
                       /\ r.client_port = ncall[p].client_port
        /\ natneg' # natneg =>
               \E p \in Procs : npc[p] = "nn_commit" /\ npc'[p] = "done" ]_vars

\* Two callers raced on one cookie with different endpoints: one inserted
\* the row, the other's INSERT met the primary key, and it rewrote the row;
\* the stored mapping is the second caller's pair.
C13_Witness ==
    \E p \in Procs, q \in Procs :
        /\ npc[p] = "done" /\ ncall[p].op = "create_natneg" /\ ncall[p].path = "created"
        /\ npc[q] = "done" /\ ncall[q].op = "create_natneg" /\ ncall[q].path = "conflict"
        /\ ncall[p].cookie = ncall[q].cookie
        /\ ncall[p].client_addr # ncall[q].client_addr
        /\ \E r \in NatNegByCookie(ncall[q].cookie) :
               /\ r.client_addr = ncall[q].client_addr
               /\ r.client_port = ncall[q].client_port

\* ------------------------------------------------------------------------
\* Game servers
\* ------------------------------------------------------------------------

\* What the game-server operations never touch.
otherThanServers ==
    <<profVars, procVars, sessions, pendVars, pendProcVars, natneg, natProcVars,
      aclVars, consVars, hbVars, reqVars>>

\* GameServer(server_id=..., **defaults): max_players and current_players
\* take their defaults, registered_at is auto_now_add, last_heartbeat is
\* auto_now.
NewServer(server_id, game_name, profile_id, ip_address, port) ==
    [server_id |-> server_id, game_name |-> game_name, host_profile |-> profile_id,
     ip_address |-> ip_address, port |-> port,
     max_players |-> 4, current_players |-> 0,
     registered_at |-> now, last_heartbeat |-> now]

\* GameServer.objects.filter(server_id=...)
ServersById(server_id) == {s \in servers : s.server_id = server_id}

\* GameServer.objects.update_or_create(server_id=..., defaults={...}): the
\* stored row gets the defaults, and save() refreshes last_heartbeat
\* (auto_now); without a stored row a new one is inserted.
ServerUpdateOrCreate(server_id, game_name, profile_id, ip_address, port) ==
    LET rows == ServersById(server_id)
    IN  IF rows = {}
        THEN LET row == NewServer(server_id, game_name, profile_id, ip_address, port)
             IN  [created |-> TRUE, row |-> row, table |-> servers \cup {row}]
        ELSE LET old == CHOOSE s \in rows : TRUE
                 row == [old EXCEPT !.game_name = game_name,
                                    !.host_profile = profile_id,
                                    !.ip_address = ip_address,
                                    !.port = port,
                                    !.last_heartbeat = now]
             IN  [created |-> FALSE, row |-> row,
                  table |-> (servers \ {old}) \cup {row}]

\* Variant: register_game_server that does not look the host up first.
HostNotChecked(profile_id) == TRUE

\* register_game_server: Profile.objects.get(profile_id=...) finds the host.
HostExists(profile_id) == \E r \in profiles : r.profile_id = profile_id

\* DatabaseManager.register_game_server
RegisterGameServer(server_id, game_name, profile_id, ip_address, port) ==
    LET args == [NoArgs EXCEPT !.server_id = server_id, !.game_name = game_name,
                               !.profile_id = profile_id,
                               !.ip_address = ip_address, !.port = port]
    IN  /\ IF ~HostExists(profile_id)
           THEN /\ last' = Called("register_game_server", args, "DoesNotExist", NoResult)
                /\ servers' = servers
           ELSE LET uoc == ServerUpdateOrCreate(server_id, game_name, profile_id,
                                                ip_address, port)
                IN  /\ servers' = uoc.table
                    /\ last' = Called("register_game_server", args,
                                      IF uoc.created THEN "created" ELSE "updated",
                                      [NoResult EXCEPT !.server = uoc.row])
        /\ UNCHANGED <<now, otherThanServers>>

\* Variant: a heartbeat that registers the server it does not find.
GetOrRegister(server_id) ==
    LET rows == ServersById(server_id)
    IN  IF rows = {} THEN NewServer(server_id, "", 0, "", 0)
                     ELSE CHOOSE s \in rows : TRUE

\* GenericAPIView.get_object with lookup_field = 'server_id': the row, or
\* None where Http404 is raised.
get_object(server_id) ==
    LET rows == ServersById(server_id)
    IN  IF rows = {} THEN NoServer ELSE CHOOSE s \in rows : TRUE

\* Variant: a save that leaves last_heartbeat as it was.
SaveWithoutAutoNow(server) == server

\* server.save(update_fields=['last_heartbeat', 'current_players']):
\* last_heartbeat is auto_now.
SaveHeartbeat(server) == [server EXCEPT !.last_heartbeat = now]

\* GameServerViewSet.heartbeat; players is request.data.get('current_players'),
\* given or None.
Heartbeat(server_id, players) ==
    LET args   == [NoArgs EXCEPT !.server_id = server_id, !.players = players]
        server == get_object(server_id)
    IN  /\ IF server = NoServer
           THEN /\ last' = Called("heartbeat", args, "Http404", NoResult)
                /\ servers' = servers
           ELSE LET set == IF players.given
                           THEN [server EXCEPT !.current_players = players.value]
                           ELSE server
                    row == SaveHeartbeat(set)
                IN  /\ servers' = (servers \ ServersById(server_id)) \cup {row}
                    /\ last' = Called("heartbeat", args,
                                      IF server.last_heartbeat > now - 2
                                      THEN "was_online" ELSE "was_offline",
                                      [NoResult EXCEPT !.ok = TRUE, !.server = row])
        /\ UNCHANGED <<now, otherThanServers>>

\* GameServerViewSet.destroy (ModelViewSet): the server is unregistered.
DestroyServer(server_id) ==
    LET server == get_object(server_id)
    IN  /\ servers' = servers \ ServersById(server_id)
        /\ last' = Called("destroy", [NoArgs EXCEPT !.server_id = server_id],
                          IF server = NoServer THEN "Http404" ELSE "ok", NoResult)
        /\ UNCHANGED <<now, otherThanServers>>

\* Variant: last_heartbeat__gte.
HeartbeatAtOrAfter(threshold) == {s \in servers : s.last_heartbeat >= threshold}

\* GameServer.objects.filter(last_heartbeat__gt=threshold)
HeartbeatAfter(threshold) == {s \in servers : s.last_heartbeat > threshold}

\* DatabaseManager.get_game_servers; game_name "" stands for None, and both
\* are falsy in "if game_name:".
get_game_servers(game_name) ==
    LET threshold == now - HEARTBEAT_TIMEOUT_MINUTES
        qs        == HeartbeatAfter(threshold)
    IN  IF game_name # "" THEN {s \in qs : s.game_name = game_name} ELSE qs

\* GameServer.is_online: last_heartbeat > now - timedelta(minutes=2).
is_online(s) == s.last_heartbeat > now - IsOnlineMinutes

\* A call of get_game_servers.
GetGameServers(game_name) ==
    /\ last' = Called("get_game_servers", [NoArgs EXCEPT !.game_name = game_name],
                      "ok", [NoResult EXCEPT !.servers = get_game_servers(game_name)])
    /\ UNCHANGED <<servers, now, otherThanServers>>

\* GameServerViewSet.online: queryset.filter(last_heartbeat__gte=cutoff),
\* cutoff being now - HEARTBEAT_TIMEOUT_MINUTES (views.py has its own
\* constant of that name, with the same value).
online_servers ==
    LET cutoff == now - HEARTBEAT_TIMEOUT_MINUTES
    IN  {s \in servers : s.last_heartbeat >= cutoff}

\* A request to the online listing of the game-server API (AllowAny).
OnlineRequest ==
    /\ last' = Called("online", NoArgs, "200",
                      [NoResult EXCEPT !.servers = online_servers])
    /\ UNCHANGED <<servers, now, otherThanServers>>

\* Time passes between two game-server calls, a minute or two at a time.
ShortTick(d) ==
    /\ now + d <= MaxHeartbeatNow
    /\ now' = now + d
    /\ last' = Called("tick", [NoArgs EXCEPT !.minutes = d], "ok", NoResult)
    /\ UNCHANGED <<servers, otherThanServers>>

NextServer ==
    \/ \E g \in GameIds : GetOrCreateProfileCall("u1", g, DefaultKwargs)
    \/ \E s \in ServerIds, r \in Registrations, i \in HostIds :
           RegisterGameServer(s, r[1], i, r[2], r[3])
    \/ \E s \in ServerIds, n \in PlayerCounts : Heartbeat(s, n)
    \/ \E s \in ServerIds : DestroyServer(s)
    \/ \E g \in {r[1] : r \in Registrations} \cup {""} : GetGameServers(g)
    \/ OnlineRequest
    \/ \E d \in ShortTickSteps : ShortTick(d)

\* The game-server operations, called one after the other.
SpecServer == Init /\ [][NextServer]_vars

\* ------------------------------------------------------------------------
\* Game-server properties
\* ------------------------------------------------------------------------

\* C14: register_game_server with a profile_id that is not stored fails
\* with DoesNotExist, creates no server and leaves a stored server of that
\* server_id as it is; with a stored profile it leaves exactly one
\* GameServer row of the server_id, carrying the game name, host, address
\* and port of the call, and touches no other server.
C14_RegisterUpsertNeedsHost ==
    [][ last'.op = "register_game_server" =>
            LET before == {s \in servers : s.server_id = last'.args.server_id}
                after  == {s \in servers' : s.server_id = last'.args.server_id}
            IN  IF last'.args.profile_id \notin StoredProfileIds
                THEN /\ last'.path = "DoesNotExist"
                     /\ servers' = servers
                ELSE /\ Cardinality(after) = 1
                     /\ \A r \in after :
                            /\ r.game_name = last'.args.game_name
                            /\ r.host_profile = last'.args.profile_id
                            /\ r.ip_address = last'.args.ip_address
                            /\ r.port = last'.args.port
                            /\ last'.ret.server = r
                     /\ servers' \ after = servers \ before ]_vars

\* register_game_server was refused for an unknown host while a server of
\* that server_id, registered by a stored host, is on the table.
C14_Witness ==
    /\ last.op = "register_game_server"
    /\ last.path = "DoesNotExist"
    /\ last.args.profile_id \notin StoredProfileIds
    /\ \E s \in ServersById(last.args.server_id) :
           /\ s.host_profile \in StoredProfileIds
           /\ s.game_name # last.args.game_name

C16_ListedIffHeartbeatWithin2 ==
    [][ last'.op = "get_game_servers" =>
            LET g == last'.args.game_name
            IN  /\ servers' = servers
                /\ last'.ret.servers =
                       {s \in servers : /\ now - s.last_heartbeat < 2
                                        /\ (g = "" \/ s.game_name = g)}
                /\ g = "" => \A s \in servers :
                                 is_online(s) <=> s \in last'.ret.servers ]_vars

\* The unfiltered list was read while one server's heartbeat was exactly 2
\* minutes old and another's younger: only the second was returned.
C16_Witness ==
    /\ last.op = "get_game_servers"
    /\ last.args.game_name = ""
    /\ \E s \in servers : now - s.last_heartbeat = 2 /\ s \notin last.ret.servers
    /\ \E s \in servers : now - s.last_heartbeat = 1 /\ s \in last.ret.servers

otherThanAcl ==
    <<profVars, procVars, sessVars, pendVars, pendProcVars, natneg, natProcVars,
      servers, consVars, hbVars, reqVars>>

\* BannedItem(...) as add_ban inserts it: banned_at is auto_now_add.
NewBan(ban_type, identifier, reason, expires_at, banned_by) ==
    [ban_type |-> ban_type, identifier |-> identifier, reason |-> reason,
     expires_at |-> expires_at, banned_by |-> banned_by, banned_at |-> now]

\* BannedItem.objects.filter(ban_type=..., identifier=...)
BansByKey(ban_type, identifier) ==
    {b \in banned : b.ban_type = ban_type /\ b.identifier = identifier}

\* Variant: a ban that is still in force at the instant it expires.
ban_is_active_inclusive(ban) ==
    IF ~ban.expires_at.null THEN now <= ban.expires_at.at ELSE TRUE

\* BannedItem.is_active: "if self.expires_at: return timezone.now() <
\* self.expires_at; return True" (None is falsy, a datetime is truthy).
ban_is_active(ban) ==
    IF ~ban.expires_at.null THEN now < ban.expires_at.at ELSE TRUE

\* DatabaseManager.is_banned: BannedItem.DoesNotExist gives False.
is_banned(ban_type, identifier) ==
    LET rows == BansByKey(ban_type, identifier)
    IN  IF rows = {} THEN FALSE ELSE ban_is_active(CHOOSE b \in rows : TRUE)

IsBanned(ban_type, identifier) ==
    /\ last' = Called("is_banned",
                      [NoArgs EXCEPT !.ban_type = ban_type, !.identifier = identifier],
                      IF BansByKey(ban_type, identifier) = {} THEN "DoesNotExist" ELSE "ok",
                      [NoResult EXCEPT !.ok = is_banned(ban_type, identifier)])
    /\ UNCHANGED <<now, aclVars, otherThanAcl>>

\* Variant: get_or_create, which hands back a stored row as it is.
BanGetOrCreate(ban_type, identifier, reason, expires_at, banned_by) ==
    LET rows == BansByKey(ban_type, identifier)
        row  == IF rows = {}
                THEN NewBan(ban_type, identifier, reason, expires_at, banned_by)
                ELSE CHOOSE b \in rows : TRUE
    IN  [created |-> rows = {}, row |-> row, table |-> banned \cup {row}]

\* BannedItem.objects.update_or_create(ban_type=..., identifier=...,
\* defaults={reason, expires_at, banned_by}): a stored row gets the
\* defaults and keeps banned_at (auto_now_add); without one a row is
\* inserted.
BanUpdateOrCreate(ban_type, identifier, reason, expires_at, banned_by) ==
    LET rows == BansByKey(ban_type, identifier)
        row  == IF rows = {}
                THEN NewBan(ban_type, identifier, reason, expires_at, banned_by)
                ELSE [(CHOOSE b \in rows : TRUE) EXCEPT !.reason = reason,
                                                        !.expires_at = expires_at,
                                                        !.banned_by = banned_by]
    IN  [created |-> rows = {}, row |-> row, table |-> (banned \ rows) \cup {row}]

\* DatabaseManager.add_ban
AddBan(ban_type, identifier, reason, expires_at, banned_by) ==
    LET args == [NoArgs EXCEPT !.ban_type = ban_type, !.identifier = identifier,
                               !.reason = reason, !.expires_at = expires_at,
                               !.banned_by = banned_by]
        uoc  == BanUpdateOrCreate(ban_type, identifier, reason, expires_at, banned_by)
    IN  /\ banned' = uoc.table
        /\ last' = Called("add_ban", args, IF uoc.created THEN "created" ELSE "updated",
                          [NoResult EXCEPT !.ban = uoc.row])
        /\ UNCHANGED <<now, allow, deny, otherThanAcl>>

\* DatabaseManager.remove_ban
RemoveBan(ban_type, identifier) ==
    LET rows == BansByKey(ban_type, identifier)
    IN  /\ banned' = banned \ rows
        /\ last' = Called("remove_ban",
                          [NoArgs EXCEPT !.ban_type = ban_type, !.identifier = identifier],
                          "ok", [NoResult EXCEPT !.ok = Cardinality(rows) > 0])
        /\ UNCHANGED <<now, allow, deny, otherThanAcl>>

\* AllowList.objects.filter(user_id=...): user_id is the primary key.
AllowByUser(user_id) == {e \in allow : e.user_id = user_id}

\* Variant: a whitelist check that does not look at the enabled flag.
is_whitelisted_ignoring_enabled(user_id, mac_address) ==
    LET rows == AllowByUser(user_id)
    IN  IF rows = {} THEN FALSE
        ELSE (CHOOSE e \in rows : TRUE).mac_address = mac_address

\* DatabaseManager.is_whitelisted: "entry.enabled and entry.mac_address ==
\* mac_address"; AllowList.DoesNotExist gives False.
is_whitelisted(user_id, mac_address) ==
    LET rows == AllowByUser(user_id)
    IN  IF rows = {} THEN FALSE
        ELSE LET entry == CHOOSE e \in rows : TRUE
             IN  entry.enabled /\ entry.mac_address = mac_address

IsWhitelisted(user_id, mac_address) ==
    /\ last' = Called("is_whitelisted",
                      [NoArgs EXCEPT !.user_id = user_id, !.mac_address = mac_address],
                      IF AllowByUser(user_id) = {} THEN "DoesNotExist" ELSE "ok",
                      [NoResult EXCEPT !.ok = is_whitelisted(user_id, mac_address)])
    /\ UNCHANGED <<now, aclVars, otherThanAcl>>

\* Variant: get_or_create, which leaves a stored entry as it is.
AllowGetOrCreate(user_id, mac_address, notes) ==
    LET rows == AllowByUser(user_id)
    IN  IF rows = {}
        THEN [user_id |-> user_id, mac_address |-> mac_address,
              enabled |-> TRUE, notes |-> notes, added_at |-> now]
        ELSE CHOOSE e \in rows : TRUE

\* AllowList.objects.update_or_create(user_id=..., defaults={mac_address,
\* enabled: True, notes}): the row it stores.  A stored entry of the user
\* gets the defaults and keeps added_at (auto_now_add).
AllowUpdateOrCreate(user_id, mac_address, notes) ==
    LET rows == AllowByUser(user_id)
    IN  IF rows = {}
        THEN [user_id |-> user_id, mac_address |-> mac_address,
              enabled |-> TRUE, notes |-> notes, added_at |-> now]
        ELSE [(CHOOSE e \in rows : TRUE) EXCEPT !.mac_address = mac_address,
                                                !.enabled = TRUE,
                                                !.notes = notes]

\* DatabaseManager.add_to_whitelist, notes left at its default "".
AddToWhitelist(user_id, mac_address) ==
    LET rows == AllowByUser(user_id)
        row  == AllowUpdateOrCreate(user_id, mac_address, "")
    IN  /\ allow' = (allow \ rows) \cup {row}
        /\ last' = Called("add_to_whitelist",
                          [NoArgs EXCEPT !.user_id = user_id, !.mac_address = mac_address],
                          IF rows = {} THEN "created" ELSE "updated",
                          [NoResult EXCEPT !.entry = row,
                                           !.before = IF rows = {} THEN NoAllow
                                                      ELSE CHOOSE e \in rows : TRUE])
        /\ UNCHANGED <<now, banned, deny, otherThanAcl>>

\* DatabaseManager.remove_from_whitelist
RemoveFromWhitelist(user_id) ==
    LET rows == AllowByUser(user_id)
    IN  /\ allow' = allow \ rows
        /\ last' = Called("remove_from_whitelist", [NoArgs EXCEPT !.user_id = user_id],
                          "ok", [NoResult EXCEPT !.ok = Cardinality(rows) > 0])
        /\ UNCHANGED <<now, banned, deny, otherThanAcl>>

\* AllowListAdmin.disable_entries on the entry of one user:
\* queryset.update(enabled=False).
DisableEntries(user_id) ==
    LET rows == AllowByUser(user_id)
    IN  /\ allow' = (allow \ rows) \cup {[e EXCEPT !.enabled = FALSE] : e \in rows}
        /\ last' = Called("disable_entries", [NoArgs EXCEPT !.user_id = user_id],
                          "ok", [NoResult EXCEPT !.count = Cardinality(rows)])
        /\ UNCHANGED <<now, banned, deny, otherThanAcl>>

\* DenyList.objects.filter(user_id=..., game_id=...)
DenyByKey(user_id, game_id) ==
    {d \in deny : d.user_id = user_id /\ d.game_id = game_id}

\* DatabaseManager.is_denied: filter(...).exists()
is_denied(user_id, game_id) == DenyByKey(user_id, game_id) # {}

IsDenied(user_id, game_id) ==
    /\ last' = Called("is_denied",
                      [NoArgs EXCEPT !.user_id = user_id, !.game_id = game_id],
                      "ok", [NoResult EXCEPT !.ok = is_denied(user_id, game_id)])
    /\ UNCHANGED <<now, aclVars, otherThanAcl>>

\* DenyList.objects.update_or_create(user_id=..., game_id=...,
\* defaults={reason, banned_by}): a stored row gets the defaults and keeps
\* banned_at (auto_now_add); without one a row is inserted.
DenyUpdateOrCreate(user_id, game_id, reason, banned_by) ==
    LET rows == DenyByKey(user_id, game_id)
        row  == IF rows = {}
                THEN [user_id |-> user_id, game_id |-> game_id, reason |-> reason,
                      banned_by |-> banned_by, banned_at |-> now]
                ELSE [(CHOOSE d \in rows : TRUE) EXCEPT !.reason = reason,
                                                        !.banned_by = banned_by]
    IN  [created |-> rows = {}, row |-> row, table |-> (deny \ rows) \cup {row}]

\* DatabaseManager.add_to_denylist
AddToDenylist(user_id, game_id, reason, banned_by) ==
    LET uoc == DenyUpdateOrCreate(user_id, game_id, reason, banned_by)
    IN  /\ deny' = uoc.table
        /\ last' = Called("add_to_denylist",
                          [NoArgs EXCEPT !.user_id = user_id, !.game_id = game_id,
                                         !.reason = reason, !.banned_by = banned_by],
                          IF uoc.created THEN "created" ELSE "updated",
                          [NoResult EXCEPT !.denied = uoc.row])
        /\ UNCHANGED <<now, banned, allow, otherThanAcl>>

\* DatabaseManager.remove_from_denylist
RemoveFromDenylist(user_id, game_id) ==
    LET rows == DenyByKey(user_id, game_id)
    IN  /\ deny' = deny \ rows
        /\ last' = Called("remove_from_denylist",
                          [NoArgs EXCEPT !.user_id = user_id, !.game_id = game_id],
                          "ok", [NoResult EXCEPT !.ok = Cardinality(rows) > 0])
        /\ UNCHANGED <<now, banned, allow, otherThanAcl>>

NextBan ==
    \/ \E k \in BanKeys, e \in Expiries : AddBan(k[1], k[2], "", e, "")
    \/ \E k \in BanKeys : RemoveBan(k[1], k[2])
    \/ \E k \in BanKeys : IsBanned(k[1], k[2])
    \/ \E d \in ShortTickSteps : ShortTick(d)

\* The ban operations, called one after the other while time passes.
SpecBan == Init /\ [][NextBan]_vars

NextAllow ==
    \/ \E u \in UserIds, m \in MacAddresses : AddToWhitelist(u, m)
    \/ \E u \in UserIds : RemoveFromWhitelist(u)
    \/ \E u \in UserIds : DisableEntries(u)
    \/ \E u \in UserIds, m \in MacAddresses : IsWhitelisted(u, m)
    \/ \E u \in UserIds, g \in GameIds : AddToDenylist(u, g, "", "")
    \/ \E u \in UserIds, g \in GameIds : RemoveFromDenylist(u, g)
    \/ \E u \in UserIds, g \in GameIds : IsDenied(u, g)

\* The allow-list and deny-list operations, called one after the other.
SpecAllow == Init /\ [][NextAllow]_vars

\* The text of a profile id, as the identifier of a ban of type 'profile'.
ProfileIdText(profile_id) ==
    <<"1", "2", "3", "4", "5", "6", "7", "8", "9">>[profile_id]

\* An access-control predicate holds for the profile or its user: a ban of
\* the profile id, a ban of the user id, or a deny entry of the user for the
\* profile's game.
Barred(profile_id) ==
    \/ is_banned("profile", ProfileIdText(profile_id))
    \/ is_banned("userid", ProfileOf(profile_id).user_id)
    \/ is_denied(ProfileOf(profile_id).user_id, ProfileOf(profile_id).game_id)

NextGate ==
    \/ \E g \in GameIds : GetOrCreateProfileCall("u1", g, DefaultKwargs)
    \/ \E k \in GateBanKeys : AddBan(k[1], k[2], "", NoExpiry, "")
    \/ \E k \in GateBanKeys : RemoveBan(k[1], k[2])
    \/ \E g \in GameIds : AddToDenylist("u1", g, "", "")
    \/ \E g \in GameIds : RemoveFromDenylist("u1", g)
    \/ \E k \in SessionKeys : CreateSession(1, k)
    \/ AddToPending(1, 9)
    \/ \E r \in Registrations : RegisterGameServer("s1", r[1], 1, r[2], r[3])
    \/ DeleteSession("k1")
    \/ RemoveFromPending(1, 9)
    \/ DestroyServer("s1")

\* Login, matchmaking join and server registration of one profile, with
\* the administrative changes of the bans that concern it.
SpecGate == Init /\ [][NextGate]_vars

\* C18: is_banned(type, id) changes nothing and returns false without a
\* BannedItem of that (type, id), true with one that has no expiry, and for
\* one with an expiry true exactly while now < expires_at (false at
\* now = expires_at and later); a ban without expiry keeps is_banned true
\* over every step that is not a remove_ban or add_ban of its (type, id).
C18_BannedUntilExpiry ==
    [][ /\ last'.op = "is_banned" =>
               LET rows == {b \in banned : /\ b.ban_type = last'.args.ban_type
                                           /\ b.identifier = last'.args.identifier}
               IN  /\ banned' = banned
                   /\ rows = {} => last'.ret.ok = FALSE
                   /\ \A b \in rows :
                          last'.ret.ok = (b.expires_at.null \/ now < b.expires_at.at)
        /\ \A b \in banned :
               (/\ b.expires_at.null
                /\ ~(/\ last'.op \in {"remove_ban", "add_ban"}
                     /\ last'.args.ban_type = b.ban_type
                     /\ last'.args.identifier = b.identifier))
               => is_banned(b.ban_type, b.identifier)' ]_vars

\* is_banned was asked at the very minute a ban expires and said no, and a
\* ban without expiry that was stored two minutes earlier is still a ban.
C18_Witness ==
    /\ last.op = "is_banned"
    /\ last.ret.ok = FALSE
    /\ \E b \in banned : /\ b.ban_type = last.args.ban_type
                         /\ b.identifier = last.args.identifier
                         /\ ~b.expires_at.null
                         /\ b.expires_at.at = now
    /\ \E b \in banned : /\ b.expires_at.null
                         /\ b.banned_at + 2 <= now
                         /\ is_banned(b.ban_type, b.identifier)

\* C19: is_whitelisted(user_id, mac) returns true exactly when an AllowList
\* entry of user_id is stored, enabled, and has that very MAC, and the call
\* changes no table.
C19_WhitelistedIffEnabledSameMac ==
    [][ last'.op = "is_whitelisted" =>
            /\ last'.ret.ok = (\E e \in allow : /\ e.user_id = last'.args.user_id
                                                /\ e.enabled
                                                /\ e.mac_address = last'.args.mac_address)
            /\ UNCHANGED <<aclVars, now, otherThanAcl>> ]_vars

\* is_whitelisted said no for the MAC of a disabled entry, while the allow
\* list also holds an enabled entry.
C19_Witness ==
    /\ last.op = "is_whitelisted"
    /\ last.ret.ok = FALSE
    /\ \E e \in allow : /\ e.user_id = last.args.user_id
                        /\ e.mac_address = last.args.mac_address
                        /\ ~e.enabled
    /\ \E e \in allow : e.enabled

\* C20: create_session, add_to_pending and register_game_server create no
\* Session, Pending entry or GameServer for a profile for which is_banned
\* (of the profile id or of its user id) or is_denied (of its user and
\* game) holds at the time of the call.
C20_BarredProfileGetsNothing ==
    [][ (/\ last'.op \in {"create_session", "add_to_pending", "register_game_server"}
         /\ last'.path # "DoesNotExist"
         /\ Barred(last'.args.profile_id))
        => /\ sessions' \subseteq sessions
           /\ pending' \subseteq pending
           /\ servers' \subseteq servers ]_vars

\* ------------------------------------------------------------------------
\* The ban API (BannedItemViewSet)
\* ------------------------------------------------------------------------

\* Variant: every action of the ban API is public.
AllowAnyAction(action, caller) == TRUE

\* BannedItemViewSet.get_permissions: AllowAny for check, IsAdminUser
\* (request.user and request.user.is_staff) for every other action.
get_permissions(action, caller) ==
    IF action = "check" THEN TRUE ELSE caller.is_staff

\* BannedItemViewSet.active: the bans with expires_at > now or no expiry.
ActiveBans ==
    {b \in banned : ~b.expires_at.null /\ b.expires_at.at > now}
        \cup {b \in banned : b.expires_at.null}

\* One request to the ban API by a caller: the permission check, then the
\* action. create is refused for a stored (ban_type, identifier) by the
\* serializer's unique_together validation; retrieve, update and destroy
\* address one stored row and answer 404 without it.
BanRequest(caller, action, ban_type, identifier, expires_at) ==
    LET args == [NoArgs EXCEPT !.action = action, !.is_staff = caller.is_staff,
                               !.authenticated = caller.authenticated,
                               !.ban_type = ban_type, !.identifier = identifier,
                               !.expires_at = expires_at]
        rows == BansByKey(ban_type, identifier)
        done(path, table, r) == /\ banned' = table
                                /\ last' = Called("ban_api", args, path, r)
    IN  /\ IF ~get_permissions(action, caller)
           THEN done(IF caller.authenticated THEN "403" ELSE "401", banned, NoResult)
           ELSE CASE action = "check" ->
                       IF ban_type = "" \/ identifier = ""
                       THEN done("400", banned, NoResult)
                       ELSE IF rows = {}
                       THEN done("DoesNotExist", banned, NoResult)
                       ELSE LET ban == CHOOSE b \in rows : TRUE
                            IN  IF ban_is_active(ban)
                                THEN done("200", banned,
                                          [NoResult EXCEPT !.ok = TRUE, !.ban = ban])
                                ELSE done("200", banned, NoResult)
                  [] action = "list" ->
                       done("200", banned, [NoResult EXCEPT !.bans = banned])
                  [] action = "active" ->
                       done("200", banned, [NoResult EXCEPT !.bans = ActiveBans])
                  [] action = "create" ->
                       IF ban_type = "" \/ identifier = "" \/ rows # {}
                       THEN done("400", banned, NoResult)
                       ELSE LET ban == NewBan(ban_type, identifier, "", expires_at, "")
                            IN  done("201", banned \cup {ban},
                                     [NoResult EXCEPT !.ban = ban])
                  [] action = "retrieve" ->
                       IF rows = {}
                       THEN done("404", banned, NoResult)
                       ELSE done("200", banned,
                                 [NoResult EXCEPT !.ban = CHOOSE b \in rows : TRUE])
                  [] action \in {"update", "partial_update"} ->
                       IF rows = {}
                       THEN done("404", banned, NoResult)
                       ELSE LET ban == [(CHOOSE b \in rows : TRUE)
                                            EXCEPT !.expires_at = expires_at]
                            IN  done("200", (banned \ rows) \cup {ban},
                                     [NoResult EXCEPT !.ban = ban])
                  [] action = "destroy" ->
                       IF rows = {}
                       THEN done("404", banned, NoResult)
                       ELSE done("204", banned \ rows, NoResult)
        /\ UNCHANGED <<now, allow, deny, otherThanAcl>>

NextBanApi ==
    \/ \E c \in ApiCallers, a \in {"create", "update", "partial_update"},
          k \in ApiBanKeys, e \in Expiries : BanRequest(c, a, k[1], k[2], e)
    \/ \E c \in ApiCallers, a \in {"retrieve", "destroy", "check"},
          k \in ApiBanKeys : BanRequest(c, a, k[1], k[2], NoExpiry)
    \/ \E c \in ApiCallers, a \in {"list", "active"} :
           BanRequest(c, a, "", "", NoExpiry)
    \/ \E d \in ShortTickSteps : ShortTick(d)

\* Requests to the ban API, one after the other while time passes.
SpecBanApi == Init /\ [][NextBanApi]_vars

\* C21: a request of a caller who is not an admin (anonymous, or logged in
\* without the staff flag) leaves the ban table as it was, whatever the
\* action; every action but check is refused for such a caller; and check
\* leaves the ban table as it was for every caller.
C21_OnlyAdminsChangeBans ==
    [][ last'.op = "ban_api" =>
            /\ ~last'.args.is_staff => banned' = banned
            /\ (~last'.args.is_staff /\ last'.args.action # "check")
                   => last'.path \in {"401", "403"}
            /\ last'.args.action = "check" => banned' = banned ]_vars

\* A logged-in caller without admin rights asked to destroy a stored ban and
\* was refused; the ban is still stored.
C21_Witness ==
    /\ last.op = "ban_api"
    /\ last.args.action = "destroy"
    /\ last.args.authenticated /\ ~last.args.is_staff
    /\ last.path = "403"
    /\ BansByKey(last.args.ban_type, last.args.identifier) # {}

NextUpsert ==
    \/ \E k \in BanKeys, i \in Issuings, e \in Expiries :
           AddBan(k[1], k[2], i[1], e, i[2])
    \/ \E k \in BanKeys : RemoveBan(k[1], k[2])
    \/ \E u \in UserIds, g \in GameIds, i \in Issuings : AddToDenylist(u, g, i[1], i[2])
    \/ \E u \in UserIds, g \in GameIds : RemoveFromDenylist(u, g)

\* add_ban and add_to_denylist with every reason, expiry and issuer, and
\* the removals, called one after the other.
SpecUpsert == Init /\ [][NextUpsert]_vars

\* C22: add_ban and add_to_denylist never fail, also for a key that is
\* stored; afterwards exactly one row has the call's composite key, it has
\* the reason, expiry and issuer of this call, and the rows of the other
\* keys are as they were.
C22_AddBanAddDenyUpsert ==
    [][ /\ last'.op = "add_ban" =>
               LET a == last'.args
                   rows == {b \in banned' : /\ b.ban_type = a.ban_type
                                            /\ b.identifier = a.identifier}
               IN  /\ last'.path \in {"created", "updated"}
                   /\ Cardinality(rows) = 1
                   /\ \A b \in rows : /\ b.reason = a.reason
                                      /\ b.expires_at = a.expires_at
                                      /\ b.banned_by = a.banned_by
                                      /\ last'.ret.ban = b
                   /\ banned' \ rows = banned \ BansByKey(a.ban_type, a.identifier)
        /\ last'.op = "add_to_denylist" =>
               LET a == last'.args
                   rows == {d \in deny' : d.user_id = a.user_id /\ d.game_id = a.game_id}
               IN  /\ last'.path \in {"created", "updated"}
                   /\ Cardinality(rows) = 1
                   /\ \A d \in rows : /\ d.reason = a.reason
                                      /\ d.banned_by = a.banned_by
                                      /\ last'.ret.denied = d
                   /\ deny' \ rows = deny \ DenyByKey(a.user_id, a.game_id) ]_vars

\* add_ban was called for a stored key with a reason, an expiry and an
\* issuer, and the one row of the key has them; a deny entry is stored too.
C22_Witness ==
    /\ last.op = "add_ban"
    /\ last.path = "updated"
    /\ last.args.reason = "cheating"
    /\ ~last.args.expires_at.null
    /\ \E b \in banned : /\ b.ban_type = last.args.ban_type
                         /\ b.identifier = last.args.identifier
                         /\ b.reason = "cheating"
                         /\ b.expires_at = last.args.expires_at
    /\ Cardinality(BansByKey(last.args.ban_type, last.args.identifier)) = 1
    /\ deny # {}

\* C23: a create_profile(user_id, game_id) that starts while a profile of
\* that pair is stored ends with IntegrityError (the already-exists error)
\* and changes no profile row: no second profile of the pair is stored and
\* the stored one, its cached friend code included, is as it was.
C23_CreateProfileTakenPairFails ==
    [][ \A p \in Procs :
            (/\ pc[p] = "idle"
             /\ call'[p].op = "create_profile"
             /\ ByUserGame(profiles, call'[p].user_id, call'[p].game_id) # {})
            => /\ pc'[p] = "done"
               /\ ret'[p].err = "IntegrityError"
               /\ ret'[p].val = NoProfile
               /\ profiles' = profiles
               /\ nextProfileId' = nextProfileId ]_vars

\* create_profile has failed with IntegrityError for a pair whose one
\* profile is stored with its friend code.
C23_Witness ==
    \E p \in Procs :
        /\ pc[p] = "done"
        /\ call[p].op = "create_profile"
        /\ ret[p].err = "IntegrityError"
        /\ LET rows == ByUserGame(profiles, call[p].user_id, call[p].game_id)
           IN  /\ Cardinality(rows) = 1
               /\ \A r \in rows : r.cfc # EmptyCfc

\* Variant: a friend code that also depends on the profile's nick.
friend_code_with_nick(profile) ==
    format_friend_code(generate_friend_code(profile.profile_id,
                                            <<profile.game_id, profile.uniquenick>>))

\* Profile.friend_code: the friend code of (profile_id, game code), where the
\* game code is gs_broadcast_code when that is not empty and game_id
\* otherwise.  The codec is symbolic and raises nothing, so the "N/A" of
\* the except branch does not occur.
friend_code(profile) ==
    LET game_code == IF profile.gs_broadcast_code # ""
                     THEN profile.gs_broadcast_code
                     ELSE profile.game_id
    IN  format_friend_code(generate_friend_code(profile.profile_id, game_code))

\* C24: the profile that get_or_create_profile or create_profile has just
\* created and returned carries, as its cached cfc, the value its
\* friend_code property has (which prefers gs_broadcast_code over game_id),
\* and so does its stored row.
C24_CachedCfcIsFriendCode ==
    \A p \in Procs :
        (/\ pc[p] = "done"
         /\ call[p].op \in {"get_or_create_profile", "create_profile"}
         /\ call[p].path = "created"
         /\ ret[p].err = "")
        => /\ ret[p].val.cfc = friend_code(ret[p].val)
           /\ \A r \in profiles :
                  r.profile_id = ret[p].val.profile_id => r.cfc = friend_code(r)

\* C25: get_profile_by_id and get_profile_by_uniquenick end, in every
\* state of the store, with the matching profile or with not-found (None),
\* never with another fault, also when several profiles have the
\* uniquenick that is looked up.
C25_LookupsFindOrNotFound ==
    \A p \in Procs :
        (/\ pc[p] = "done"
         /\ call[p].op \in {"get_profile_by_id", "get_profile_by_uniquenick"})
        => /\ ret[p].err = ""
           /\ ret[p].val # NoProfile =>
                  IF call[p].op = "get_profile_by_id"
                  THEN ret[p].val.profile_id = call[p].profile_id
                  ELSE ret[p].val.uniquenick = call[p].uniquenick

\* ------------------------------------------------------------------------
\* Consoles: get_or_create_console, one ORM statement per step
\* ------------------------------------------------------------------------

otherThanConsole ==
    <<profVars, procVars, sessVars, pendVars, pendProcVars, last, natneg,
      natProcVars, servers, aclVars, hbVars, reqVars>>

\* Console.objects.filter(mac_address=...)
ConsolesByMac(mac_address) == {c \in consoles : c.mac_address = mac_address}

\* Variant: the table has no unique constraint on mac_address.
MacNeverTaken(mac_address) == FALSE

\* Console.mac_address unique=True: an INSERT of a stored MAC is refused.
MacTaken(mac_address) == ConsolesByMac(mac_address) # {}

\* Console(mac_address=..., **kwargs): enabled defaults to True,
\* registered_at is auto_now_add, last_seen defaults to timezone.now.
NewConsole(mac_address, user_id) ==
    [mac_address |-> mac_address, user_id |-> user_id, enabled |-> TRUE,
     registered_at |-> now, last_seen |-> now]

\* get_or_create_console: the SELECT of QuerySet.get_or_create.
CnSelect(p, mac_address, user_id) ==
    /\ cpc[p] = "idle"
    /\ LET rows == ConsolesByMac(mac_address)
       IN  IF rows = {}
           THEN /\ ccall' = [ccall EXCEPT ![p] =
                                [NoConsoleCall EXCEPT !.op = "get_or_create_console",
                                                      !.mac_address = mac_address,
                                                      !.user_id = user_id]]
                /\ cpc' = [cpc EXCEPT ![p] = "cn_insert"]
           ELSE /\ ccall' = [ccall EXCEPT ![p] =
                                [NoConsoleCall EXCEPT !.op = "get_or_create_console",
                                                      !.mac_address = mac_address,
                                                      !.user_id = user_id,
                                                      !.obj = CHOOSE c \in rows : TRUE,
                                                      !.path = "found"]]
                /\ cpc' = [cpc EXCEPT ![p] = "cn_stamp"]
    /\ UNCHANGED <<consoles, cret, otherThanConsole>>

\* get_or_create_console: the INSERT of QuerySet.get_or_create, committed
\* by itself.  A unique violation is caught and leads to a second SELECT;
\* otherwise the console is created and returned.
CnInsert(p) ==
    /\ cpc[p] = "cn_insert"
    /\ IF MacTaken(ccall[p].mac_address)
       THEN /\ cpc' = [cpc EXCEPT ![p] = "cn_reselect"]
            /\ ccall' = [ccall EXCEPT ![p].path = "conflict"]
            /\ UNCHANGED <<consoles, cret>>
       ELSE LET row == NewConsole(ccall[p].mac_address, ccall[p].user_id)
            IN  /\ consoles' = consoles \cup {row}
                /\ ccall' = [ccall EXCEPT ![p].path = "created"]
                /\ cret' = [cret EXCEPT ![p] = [err |-> "", console |-> row]]
                /\ cpc' = [cpc EXCEPT ![p] = "done"]
    /\ UNCHANGED otherThanConsole

\* get_or_create_console: the SELECT QuerySet.get_or_create runs after an
\* IntegrityError; when it finds nothing the IntegrityError is raised.
CnReselect(p) ==
    /\ cpc[p] = "cn_reselect"
    /\ LET rows == ConsolesByMac(ccall[p].mac_address)
       IN  IF rows = {}
           THEN /\ cret' = [cret EXCEPT ![p] =
                               [err |-> "IntegrityError", console |-> NoConsole]]
                /\ cpc' = [cpc EXCEPT ![p] = "done"]
                /\ ccall' = ccall
           ELSE /\ ccall' = [ccall EXCEPT ![p].obj = CHOOSE c \in rows : TRUE,
                                          ![p].path = "reselected"]
                /\ cpc' = [cpc EXCEPT ![p] = "cn_stamp"]
                /\ cret' = cret
    /\ UNCHANGED <<consoles, otherThanConsole>>

\* get_or_create_console, "if not created": console.last_seen =
\* timezone.now(), an assignment to the caller's instance.
CnStamp(p) ==
    /\ cpc[p] = "cn_stamp"
    /\ ccall' = [ccall EXCEPT ![p].obj.last_seen = now]
    /\ cpc' = [cpc EXCEPT ![p] = "cn_save"]
    /\ UNCHANGED <<consoles, cret, otherThanConsole>>

\* get_or_create_console: console.save(update_fields=['last_seen']), an
\* UPDATE of that column of the row with the value of the instance; save
\* raises DatabaseError when no row is updated.
CnSaveLastSeen(p) ==
    /\ cpc[p] = "cn_save"
    /\ LET rows == ConsolesByMac(ccall[p].mac_address)
           obj  == ccall[p].obj
       IN  IF rows = {}
           THEN /\ cret' = [cret EXCEPT ![p] =
                               [err |-> "DatabaseError", console |-> NoConsole]]
                /\ consoles' = consoles
           ELSE /\ consoles' = (consoles \ rows)
                                  \cup {[c EXCEPT !.last_seen = obj.last_seen] : c \in rows}
                /\ cret' = [cret EXCEPT ![p] = [err |-> "", console |-> obj]]
    /\ ccall' = [ccall EXCEPT ![p].obj = NoConsole]
    /\ cpc' = [cpc EXCEPT ![p] = "done"]
    /\ UNCHANGED otherThanConsole

\* The caller takes its console and is free for the next call.
CnReturn(p) ==
    /\ cpc[p] = "done"
    /\ cpc' = [cpc EXCEPT ![p] = "idle"]
    /\ ccall' = [ccall EXCEPT ![p] = NoConsoleCall]
    /\ cret' = [cret EXCEPT ![p] = NoConsoleRet]
    /\ UNCHANGED <<consoles, otherThanConsole>>

\* A minute passes between two steps of the console callers.
ConsoleTick ==
    /\ now + 1 <= MaxConsoleNow
    /\ now' = now + 1
    /\ UNCHANGED <<profVars, procVars, sessions, pendVars, pendProcVars, last, natneg,
                   natProcVars, servers, aclVars, consVars, hbVars, reqVars>>

NextConsole ==
    \/ \E p \in Procs, m \in ConsoleMacs, u \in ConsoleUsers : CnSelect(p, m, u)
    \/ \E p \in Procs : CnInsert(p)
    \/ \E p \in Procs : CnReselect(p)
    \/ \E p \in Procs : CnStamp(p)
    \/ \E p \in Procs : CnSaveLastSeen(p)
    \/ \E p \in Procs : CnReturn(p)
    \/ ConsoleTick

\* Concurrent callers of get_or_create_console while time passes.
SpecConsole == Init /\ [][NextConsole]_vars

\* C26: no two consoles have the same MAC address; a finished
\* get_or_create_console has a console with its MAC stored; the call
\* creates the console when none is stored for the MAC, with the supplied
\* attributes; and a stored console stays stored and changes in nothing
\* but last_seen, which a later contact sets to the time it took from the
\* clock, whatever attributes it supplied.
C26_ConsoleCreatedOnceThenLastSeen ==
    [][ /\ \A m \in ConsoleMacs :
               Cardinality({c \in consoles' : c.mac_address = m}) <= 1
        /\ \A p \in Procs :
               (cpc'[p] = "done" /\ cpc[p] # "done") =>
                   /\ cret'[p].err = ""
                   /\ cret'[p].console \in consoles'
                   /\ cret'[p].console.mac_address = ccall'[p].mac_address
                   /\ IF ConsolesByMac(ccall'[p].mac_address) = {}
                      THEN cret'[p].console =
                               NewConsole(ccall'[p].mac_address, ccall'[p].user_id)
                      ELSE /\ cret'[p].console.last_seen = ccall[p].obj.last_seen
                           /\ cret'[p].console.last_seen <= now
        /\ \A p \in Procs :
               (cpc'[p] = "cn_save" /\ cpc[p] # "cn_save") =>
                   ccall'[p].obj.last_seen = now
        /\ \A c \in consoles :
               \E d \in consoles' :
                   /\ d = [c EXCEPT !.last_seen = d.last_seen]
                   /\ \/ d.last_seen = c.last_seen
                      \/ \E p \in Procs : /\ cpc[p] = "cn_save"
                                           /\ d.last_seen = ccall[p].obj.last_seen ]_vars

\* Two callers announced the same MAC with different attributes at the
\* same time: one created the console, the other one's INSERT was refused
\* and it has refreshed last_seen of the one stored console, later than the
\* creation; the stored attributes are the creator's.
C26_Witness ==
    \E p \in Procs :
        /\ cpc[p] = "done"
        /\ ccall[p].path = "reselected"
        /\ cret[p].err = ""
        /\ cret[p].console.user_id # ccall[p].user_id
        /\ cret[p].console.last_seen > cret[p].console.registered_at
        /\ cret[p].console \in consoles
        /\ Cardinality(ConsolesByMac(ccall[p].mac_address)) = 1

\* ------------------------------------------------------------------------
\* Deleting profiles and consoles: the foreign keys
\* ------------------------------------------------------------------------

\* What a deletion leaves unchanged besides the tables.
otherThanTables ==
    <<nextProfileId, creator, procVars, now, nextPendingId, pendProcVars, natneg,
      natProcVars, aclVars, cpc, ccall, cret, hbVars, reqVars>>

\* DatabaseManager.get_or_create_console, the whole call at once.
GetOrCreateConsoleCall(mac_address, user_id) ==
    LET rows == ConsolesByMac(mac_address)
        args == [NoArgs EXCEPT !.mac_address = mac_address, !.user_id = user_id]
    IN  /\ IF rows = {}
           THEN LET row == NewConsole(mac_address, user_id)
                IN  /\ consoles' = consoles \cup {row}
                    /\ last' = Called("get_or_create_console", args, "created",
                                      [NoResult EXCEPT !.console = row])
           ELSE LET row == [(CHOOSE c \in rows : TRUE) EXCEPT !.last_seen = now]
                IN  /\ consoles' = (consoles \ rows) \cup {row}
                    /\ last' = Called("get_or_create_console", args, "found",
                                      [NoResult EXCEPT !.console = row])
        /\ UNCHANGED <<profiles, sessions, pending, servers, otherThanTables>>

\* ProfileViewSet.partial_update with a console: the profile gets the
\* console when both are stored (404 without the profile, 400 without the
\* console).
ProfileSetConsole(profile_id, mac_address) ==
    LET args == [NoArgs EXCEPT !.profile_id = profile_id, !.mac_address = mac_address]
        path == IF ~ProfileExists(profile_id) THEN "404"
                ELSE IF ConsolesByMac(mac_address) = {} THEN "400" ELSE "200"
    IN  /\ profiles' = IF path = "200"
                       THEN {IF r.profile_id = profile_id
                             THEN [r EXCEPT !.console = mac_address] ELSE r
                             : r \in profiles}
                       ELSE profiles
        /\ last' = Called("profile_partial_update", args, path, NoResult)
        /\ UNCHANGED <<sessions, pending, servers, consoles, otherThanTables>>

\* Variant: Session.profile with a foreign key that keeps the rows.
SessionsKept(ids) == sessions

\* Session.profile on_delete=CASCADE: the sessions left when the profiles
\* with these ids are deleted.
SessionsOnDelete(ids) == {s \in sessions : s.profile \notin ids}

\* Pending.profile on_delete=CASCADE.
PendingOnDelete(ids) == {q \in pending : q.profile \notin ids}

\* GameServer.host_profile on_delete=CASCADE.
ServersOnDelete(ids) == {g \in servers : g.host_profile \notin ids}

\* Model.delete() of the profiles with these ids and, by the cascade, of
\* the rows that refer to them; count is the number of deleted rows.
DeleteProfiles(ids) ==
    [profiles |-> {r \in profiles : r.profile_id \notin ids},
     sessions |-> SessionsOnDelete(ids),
     pending  |-> PendingOnDelete(ids),
     servers  |-> ServersOnDelete(ids),
     count    |-> Cardinality({r \in profiles : r.profile_id \in ids})
                      + Cardinality(sessions \ SessionsOnDelete(ids))
                      + Cardinality(pending \ PendingOnDelete(ids))
                      + Cardinality(servers \ ServersOnDelete(ids))]

\* ProfileViewSet.destroy
DeleteProfile(profile_id) ==
    LET args == [NoArgs EXCEPT !.profile_id = profile_id]
        del  == DeleteProfiles({profile_id})
    IN  /\ profiles' = del.profiles
        /\ sessions' = del.sessions
        /\ pending' = del.pending
        /\ servers' = del.servers
        /\ last' = Called("profile_destroy", args,
                          IF ProfileExists(profile_id) THEN "204" ELSE "404",
                          [NoResult EXCEPT !.count = del.count])
        /\ UNCHANGED <<consoles, otherThanTables>>

\* ConsoleViewSet.destroy: Profile.console is on_delete=CASCADE, so the
\* profiles of the console go with it, and what refers to them.
DeleteConsole(mac_address) ==
    LET args == [NoArgs EXCEPT !.mac_address = mac_address]
        rows == ConsolesByMac(mac_address)
        del  == DeleteProfiles({r.profile_id : r \in {x \in profiles :
                                   rows # {} /\ x.console = mac_address}})
    IN  /\ consoles' = consoles \ rows
        /\ profiles' = del.profiles
        /\ sessions' = del.sessions
        /\ pending' = del.pending
        /\ servers' = del.servers
        /\ last' = Called("console_destroy", args,
                          IF rows # {} THEN "204" ELSE "404",
                          [NoResult EXCEPT !.count = del.count + Cardinality(rows)])
        /\ UNCHANGED otherThanTables

NextRefs ==
    \/ \E u \in UserIds, g \in GameIds : GetOrCreateProfileCall(u, g, DefaultKwargs)
    \/ \E m \in ConsoleMacs : GetOrCreateConsoleCall(m, "u1")
    \/ \E i \in HostIds, m \in ConsoleMacs : ProfileSetConsole(i, m)
    \/ \E i \in HostIds : CreateSession(i, "k1")
    \/ \E i \in HostIds : AddToPending(i, 9)
    \/ \E i \in HostIds : RegisterGameServer("s1", "mkw", i, "10.0.0.1", 7000)
    \/ \E i \in HostIds : DeleteProfile(i)
    \/ \E m \in ConsoleMacs : DeleteConsole(m)

\* Profiles, consoles, sessions, matchmaking entries and servers are
\* created and profiles and consoles deleted, one call after the other.
SpecRefs == Init /\ [][NextRefs]_vars

\* C27: every stored Session and every Pending entry refers to a stored
\* profile, and so does every GameServer that has a host.
C27_NoDanglingProfileRefs ==
    /\ \A s \in sessions : ProfileExists(s.profile)
    /\ \A q \in pending : ProfileExists(q.profile)
    /\ \A g \in servers : g.host_profile # 0 => ProfileExists(g.host_profile)

\* A console was deleted, and with it its profile, that profile's session,
\* matchmaking entry and server; another profile is still stored.
C27_Witness ==
    /\ last.op = "console_destroy"
    /\ last.ret.count >= 5
    /\ profiles # {}

\* ------------------------------------------------------------------------
\* Reading Profile.friend_code
\* ------------------------------------------------------------------------

\* A read of Profile.friend_code on the stored profile with that id.
ReadFriendCode(profile_id) ==
    /\ ProfileExists(profile_id)
    /\ last' = Called("friend_code", [NoArgs EXCEPT !.profile_id = profile_id], "ok",
                      [NoResult EXCEPT !.cfc = friend_code(ProfileOf(profile_id))])
    /\ UNCHANGED <<profVars, procVars, sessVars, pendVars, restVars>>

\* ProfileViewSet.partial_update with a uniquenick.
ProfileSetNick(profile_id, uniquenick) ==
    LET args == [NoArgs EXCEPT !.profile_id = profile_id, !.uniquenick = uniquenick]
    IN  /\ profiles' = {IF r.profile_id = profile_id
                        THEN [r EXCEPT !.uniquenick = uniquenick] ELSE r
                        : r \in profiles}
        /\ last' = Called("profile_partial_update", args,
                          IF ProfileExists(profile_id) THEN "200" ELSE "404", NoResult)
        /\ UNCHANGED <<sessions, pending, servers, consoles, otherThanTables>>

NextFriendCode ==
    \/ \E u \in UserIds, g \in GameIds, kw \in Kwargs : GetOrCreateProfileCall(u, g, kw)
    \/ \E i \in ProfileIds : ReadFriendCode(i)
    \/ \E i \in ProfileIds, kw \in Kwargs : ProfileSetNick(i, kw.uniquenick)
    \/ \E i \in ProfileIds : DeleteProfile(i)
    \/ \E d \in TickSteps : Tick(d)

\* Profiles are created, renamed, deleted and their friend codes read, one
\* call after the other while time passes.
SpecFriendCode == Init /\ [][NextFriendCode]_vars

otherThanHeartbeat ==
    <<profVars, procVars, sessVars, pendVars, pendProcVars, last, natneg,
      natProcVars, aclVars, consVars, reqVars>>

\* GameServerViewSet.heartbeat: "server = self.get_object()" reads the row
\* into the request's own instance, and the supplied player count, if any,
\* is set on that instance.
HbGetObject(p, server_id, players) ==
    /\ hpc[p] = "idle"
    /\ LET server == get_object(server_id)
       IN  IF server = NoServer
           THEN /\ hcall' = [hcall EXCEPT ![p] =
                                [NoHeartbeat EXCEPT !.server_id = server_id,
                                                    !.players = players,
                                                    !.path = "Http404"]]
                /\ hpc' = [hpc EXCEPT ![p] = "done"]
           ELSE /\ hcall' = [hcall EXCEPT ![p] =
                                [server_id |-> server_id, players |-> players,
                                 obj |-> IF players.given
                                         THEN [server EXCEPT
                                                  !.current_players = players.value]
                                         ELSE server,
                                 path |-> ""]]
                /\ hpc' = [hpc EXCEPT ![p] = "hb_save"]
    /\ UNCHANGED <<servers, otherThanHeartbeat>>

\* GameServerViewSet.heartbeat: server.save(update_fields=['last_heartbeat',
\* 'current_players']) writes both columns of the row from the request's
\* instance, last_heartbeat being auto_now.
HbSave(p) ==
    /\ hpc[p] = "hb_save"
    /\ LET obj  == SaveHeartbeat(hcall[p].obj)
           rows == ServersById(hcall[p].server_id)
       IN  /\ servers' = (servers \ rows)
                             \cup {[s EXCEPT !.last_heartbeat = obj.last_heartbeat,
                                             !.current_players = obj.current_players]
                                   : s \in rows}
           /\ hcall' = [hcall EXCEPT ![p].obj = NoServer,
                                     ![p].path = IF rows = {} THEN "DatabaseError"
                                                 ELSE "ok"]
    /\ hpc' = [hpc EXCEPT ![p] = "done"]
    /\ UNCHANGED otherThanHeartbeat

\* The response is sent and the caller is free for the next request.
HbReturn(p) ==
    /\ hpc[p] = "done"
    /\ hpc' = [hpc EXCEPT ![p] = "idle"]
    /\ hcall' = [hcall EXCEPT ![p] = NoHeartbeat]
    /\ UNCHANGED <<servers, otherThanHeartbeat>>

NextHeartbeatRace ==
    \/ \E g \in GameIds : GetOrCreateProfileCall("u1", g, DefaultKwargs)
    \/ \E r \in Registrations : RegisterGameServer("s1", r[1], 1, r[2], r[3])
    \/ \E p \in Procs, n \in PlayerCounts : HbGetObject(p, "s1", n)
    \/ \E p \in Procs : HbSave(p)
    \/ \E p \in Procs : HbReturn(p)
    \/ \E d \in ShortTickSteps : ShortTick(d)

\* Concurrent heartbeat requests on one registered server.
SpecHeartbeatRace == Init /\ [][NextHeartbeatRace]_vars

\* C29: the save of a heartbeat that supplied a player count stores that
\* count, and the save of a heartbeat that supplied none leaves the stored
\* current_players as it is, whatever other heartbeats wrote meanwhile; so
\* the stored count is always the one of the last heartbeat that supplied
\* one.
C29_HeartbeatLastWriterPerField ==
    [][ \A p \in Procs :
            (hpc[p] = "hb_save" /\ hpc'[p] = "done") =>
                \A s \in servers : \A t \in servers' :
                    (s.server_id = hcall[p].server_id /\ t.server_id = s.server_id)
                    => t.current_players = IF hcall[p].players.given
                                           THEN hcall[p].players.value
                                           ELSE s.current_players ]_vars

\* C30: over every step a stored session that is still stored has the
\* login_time it had, so a session that is inactive stays inactive; and
\* get_session and get_profile_from_session change no session and resolve a
\* stored session also when it is inactive.
C30_LoginTimeNeverRefreshed ==
    [][ /\ \A s \in sessions : \A t \in sessions' :
               t.session_key = s.session_key =>
                   /\ t.login_time = s.login_time
                   /\ ~is_active(s) => ~is_active(t)'
        /\ last'.op \in {"get_session", "get_profile_from_session"} =>
               /\ sessions' = sessions
               /\ \A s \in sessions :
                      s.session_key = last'.args.session_key =>
                          IF last'.op = "get_session"
                          THEN last'.ret.session = s
                          ELSE last'.ret.profile.profile_id = s.profile ]_vars

\* A session that has been inactive for a while was resolved by get_session
\* twice in a row, both times as the same row with its first login_time.
C30_Witness ==
    /\ last.op = "get_session"
    /\ last.prev.same
    /\ last.ret.session \in sessions
    /\ last.ret.session = last.prev.ret.session
    /\ now - last.ret.session.login_time >= 59
    /\ ~is_active(last.ret.session)

\* ------------------------------------------------------------------------
\* The session API (SessionViewSet)
\* ------------------------------------------------------------------------

\* profile_id of a create request: 0 stands for a request without one.
RequestProfileIds == {0} \cup HostIds

\* max_age_minutes of a cleanup request: absent, a text int() rejects, or
\* an integer.
CleanupData == {[given |-> FALSE, numeric |-> TRUE, value |-> 0],
                [given |-> TRUE, numeric |-> FALSE, value |-> 0],
                [given |-> TRUE, numeric |-> TRUE, value |-> -1],
                [given |-> TRUE, numeric |-> TRUE, value |-> 0],
                [given |-> TRUE, numeric |-> TRUE, value |-> SESSION_TIMEOUT_MINUTES]}

NoCleanupData == [given |-> FALSE, numeric |-> TRUE, value |-> 0]

otherThanRequest ==
    <<profVars, procVars, pendVars, pendProcVars, natneg, natProcVars, servers,
      aclVars, consVars, hbVars>>

\* SessionViewSet.get_permissions: AllowAny for create, retrieve, destroy,
\* get_profile and cleanup, IsAuthenticated for every other action.
session_get_permissions(action, caller) ==
    IF action \in {"create", "retrieve", "destroy", "get_profile", "cleanup"}
    THEN TRUE
    ELSE caller.authenticated

\* SessionViewSet.active: queryset.filter(login_time__gte=cutoff), cutoff
\* being now - SESSION_TIMEOUT_MINUTES.
active_sessions ==
    LET cutoff == now - SESSION_TIMEOUT_MINUTES
    IN  {s \in sessions : s.login_time >= cutoff}

\* SessionViewSet.cleanup: int(request.data.get('max_age_minutes',
\* SESSION_TIMEOUT_MINUTES)).
max_age_of(data) == IF data.given THEN data.value ELSE SESSION_TIMEOUT_MINUTES

\* One request to the session API that is answered in one step: the
\* permission check, then the action.  retrieve, destroy and get_profile
\* address the row with the key and answer 404 without it; cleanup calls
\* cleanup_old_sessions with the age the request carries.
SessionRequest(caller, action, session_key, data) ==
    LET args == [NoArgs EXCEPT !.action = action, !.is_staff = caller.is_staff,
                               !.authenticated = caller.authenticated,
                               !.session_key = session_key,
                               !.minutes = max_age_of(data)]
        rows == SessionsByKey(session_key)
        done(path, table, r) == /\ sessions' = table
                                /\ last' = Called("session_api", args, path, r)
    IN  /\ IF ~session_get_permissions(action, caller)
           THEN done(IF caller.authenticated THEN "403" ELSE "401", sessions, NoResult)
           ELSE CASE action = "list" ->
                       done("200", sessions, [NoResult EXCEPT !.sessions = sessions])
                  [] action = "active" ->
                       done("200", sessions,
                            [NoResult EXCEPT !.sessions = active_sessions])
                  [] action = "retrieve" ->
                       IF rows = {}
                       THEN done("404", sessions, NoResult)
                       ELSE done("200", sessions,
                                 [NoResult EXCEPT !.session = CHOOSE s \in rows : TRUE])
                  [] action = "get_profile" ->
                       IF rows = {}
                       THEN done("404", sessions, NoResult)
                       ELSE done("200", sessions,
                                 [NoResult EXCEPT !.profile =
                                      ProfileOf((CHOOSE s \in rows : TRUE).profile)])
                  [] action = "destroy" ->
                       IF rows = {}
                       THEN done("404", sessions, NoResult)
                       ELSE done("204", sessions \ rows, NoResult)
                  [] action = "cleanup" ->
                       IF data.given /\ ~data.numeric
                       THEN done("500", sessions, NoResult)
                       ELSE LET threshold == now - max_age_of(data)
                                deleted   == OlderThan(threshold)
                            IN  done("200", sessions \ deleted,
                                     [NoResult EXCEPT !.count = Cardinality(deleted)])
        /\ UNCHANGED <<now, reqVars, otherThanRequest>>

\* SessionViewSet.create up to the return of create_session: 400 without a
\* profile_id, 404 when create_session raises Profile.DoesNotExist, 500 when
\* the INSERT raises IntegrityError ("except Exception").
SessionCreateBegin(p, profile_id, session_key) ==
    LET answer(code) == /\ spc' = [spc EXCEPT ![p] = "done"]
                        /\ scall' = [scall EXCEPT ![p] =
                               [NoRequest EXCEPT !.profile_id = profile_id,
                                                 !.status = code]]
                        /\ sessions' = sessions
    IN  /\ spc[p] = "idle"
        /\ IF profile_id = 0
           THEN answer(400)
           ELSE IF ~ProfileExists(profile_id)
           THEN answer(404)
           ELSE LET ins == SessionInsert(NewSession(session_key, profile_id))
                IN  IF ins.err # ""
                    THEN answer(500)
                    ELSE /\ sessions' = ins.table
                         /\ spc' = [spc EXCEPT ![p] = "created"]
                         /\ scall' = [scall EXCEPT ![p] =
                                [NoRequest EXCEPT !.profile_id = profile_id,
                                                  !.session_key = session_key]]
        /\ UNCHANGED <<now, last, otherThanRequest>>

\* SessionViewSet.create from Session.objects.get(session_key=...) on: 201
\* with the row; Session.DoesNotExist is not Profile.DoesNotExist, so it is
\* caught by "except Exception" and answered with 500.
SessionCreateRead(p) ==
    LET rows == SessionsByKey(scall[p].session_key)
    IN  /\ spc[p] = "created"
        /\ spc' = [spc EXCEPT ![p] = "done"]
        /\ scall' = [scall EXCEPT ![p] =
               IF rows = {}
               THEN [@ EXCEPT !.status = 500]
               ELSE [@ EXCEPT !.status = 201, !.session = CHOOSE s \in rows : TRUE]]
        /\ UNCHANGED <<sessVars, last, otherThanRequest>>

\* The response of a create request has been sent.
SessionCreateReturn(p) ==
    /\ spc[p] = "done"
    /\ spc' = [spc EXCEPT ![p] = "idle"]
    /\ scall' = [scall EXCEPT ![p] = NoRequest]
    /\ UNCHANGED <<sessVars, last, otherThanRequest>>

\* The caller whose create request is followed step by step.
Requester == CHOOSE p \in Procs : TRUE

\* Who sends a request: nobody logged in, or a logged-in user.
SessionCallers == {c \in ApiCallers : ~c.is_staff}

\* Minutes between two requests.
RequestTickSteps == {29, 30}

NextSessionApi ==
    \/ \E g \in GameIds : GetOrCreateProfileCall("u1", g, DefaultKwargs)
    \/ \E i \in RequestProfileIds, k \in SessionKeys :
           SessionCreateBegin(Requester, i, k)
    \/ SessionCreateRead(Requester)
    \/ SessionCreateReturn(Requester)
    \/ \E c \in SessionCallers, a \in {"list", "active"} :
           SessionRequest(c, a, "", NoCleanupData)
    \/ \E c \in SessionCallers, a \in {"retrieve", "get_profile", "destroy"},
          k \in SessionKeys : SessionRequest(c, a, k, NoCleanupData)
    \/ \E c \in SessionCallers, d \in CleanupData :
           SessionRequest(c, "cleanup", "", d)
    \/ \E d \in RequestTickSteps : Tick(d)

\* Requests to the session API while time passes: the create request of
\* one caller step by step, every other request in one step between its
\* steps.
SpecSessionApi == Init /\ [][NextSessionApi]_vars

\* C31: at every time the active-sessions listing of the API is the set of
\* stored sessions for which is_active() holds, a session of age exactly 30
\* minutes included.
C31_ActiveListingIsIsActive ==
    (last.op = "session_api" /\ last.args.action = "active" /\ last.path = "200")
        => last.ret.sessions = {s \in sessions : is_active(s)}

\* C33: a create request whose new session is removed by a concurrent
\* delete_session or cleanup_old_sessions between create_session and the
\* re-read of the key is answered with the created session (201) or with
\* not-found (404), never with an internal error (500).
C33_CreateRacingDeleteNeverFails ==
    [][ \A p \in Procs :
            (/\ spc[p] = "created"
             /\ spc'[p] = "done"
             /\ SessionsByKey(scall[p].session_key) = {})
            => scall'[p].status \in {201, 404} ]_vars

\* C38: a request of a caller who is not logged in removes no session that
\* is active at the time of the request, unless it is the destroy of that
\* session's key; cleanup, whatever max_age_minutes it carries, removes
\* only sessions older than the 30 minutes of the activity window.
C38_AnonymousRemovesOnlyInactive ==
    [][ (last'.op = "session_api" /\ ~last'.args.authenticated)
        => \A s \in sessions \ sessions' :
               \/ ~is_active(s)
               \/ /\ last'.args.action = "destroy"
                  /\ last'.args.session_key = s.session_key ]_vars

\* C32: at every time the online listing of the API, get_game_servers()
\* and the set of servers for which is_online() holds are the same set, a
\* server whose last heartbeat is exactly 2 minutes old included.
C32_OnlineListingsAgree ==
    (last.op = "online" /\ last.path = "200")
        => /\ last.ret.servers = get_game_servers("")
           /\ get_game_servers("") = {s \in servers : is_online(s)}

\* C37: right after cleanup_old_sessions() with the default age of 30
\* minutes, at the same instant, is_active() holds for every session that
\* is still stored.
C37_SweepLeavesOnlyActive ==
    [][ (/\ last'.op = "cleanup_old_sessions"
         /\ last'.args.minutes = SESSION_TIMEOUT_MINUTES)
        => \A s \in sessions' : is_active(s)' ]_vars

\* ------------------------------------------------------------------------
\* Every way a profile is created
\* ------------------------------------------------------------------------

\* The first console, profile, ban and server of create_testdata; the user
\* id is the console's, the gs_broadcast_code and uniquenick are drawn as
\* in the command.
TestdataUser == "u1"

TestdataKwargs == [gs_broadcast_code |-> "ADAJ12xxx1", uniquenick |-> "melonDS_ADAJ"]

\* ProfileViewSet.create (CreateModelMixin, AllowAny): the serializer's
\* unique_together validation answers 400 for a stored pair; otherwise
\* the row is inserted with the fields of ProfileSerializer, and cfc, which
\* is not one of them, keeps its default.  The INSERT waits for an
\* uncommitted row with the pair.
ProfileCreateRequest(user_id, game_id, kwargs) ==
    LET args == [NoArgs EXCEPT !.action = "create", !.user_id = user_id,
                               !.game_id = game_id,
                               !.uniquenick = kwargs.uniquenick]
    IN  /\ \A q \in Procs : txrow[q] # NoProfile =>
               ~(txrow[q].user_id = user_id /\ txrow[q].game_id = game_id)
        /\ IF UniqueTogetherViolated(user_id, game_id)
           THEN /\ last' = Called("profile_api", args, "400", NoResult)
                /\ UNCHANGED profVars
           ELSE /\ nextProfileId <= MaxProfileId
                /\ LET row == NewProfile(nextProfileId, user_id, game_id, kwargs)
                   IN  /\ profiles' = profiles \cup {row}
                       /\ creator' = [creator EXCEPT ![row.profile_id] = "profile_api"]
                       /\ last' = Called("profile_api", args, "201",
                                         [NoResult EXCEPT !.profile = row])
                /\ nextProfileId' = nextProfileId + 1
        /\ UNCHANGED <<procVars, restVars, sessVars, pendVars>>

\* create_testdata, Command.handle: with --clear the tables are emptied
\* (the deletes cascade); then a console, a profile of that console, a ban
\* and a game server hosted by the profile are inserted with
\* objects.create, each statement committed by itself, so that the first
\* IntegrityError ends the command and keeps what was inserted before.
\* The profile is created without a cfc.
CreateTestdata(clear, mac_address) ==
    LET del       == DeleteProfiles({r.profile_id : r \in profiles})
        consoles0 == IF clear THEN {} ELSE consoles
        profiles0 == IF clear THEN del.profiles ELSE profiles
        banned0   == IF clear THEN {} ELSE banned
        servers0  == IF clear THEN {} ELSE servers
        console   == NewConsole(mac_address, TestdataUser)
        profile   == [NewProfile(nextProfileId, TestdataUser, "ADAJ", TestdataKwargs)
                          EXCEPT !.console = mac_address]
        ban       == NewBan("ip", "192.168.1.666", "Suspicious activity", NoExpiry,
                            "admin")
        server    == NewServer("pokemondpds_1000", "pokemondpds", profile.profile_id,
                               "192.168.1.10", 27000)
        consoleOk == \A c \in consoles0 : c.mac_address # mac_address
        profileOk == consoleOk /\ ByUserGame(profiles0, TestdataUser, "ADAJ") = {}
        banOk     == profileOk /\ \A b \in banned0 :
                         ~(b.ban_type = ban.ban_type /\ b.identifier = ban.identifier)
    IN  /\ profileOk => nextProfileId <= MaxProfileId
        /\ consoles' = IF consoleOk THEN consoles0 \cup {console} ELSE consoles0
        /\ profiles' = IF profileOk THEN profiles0 \cup {profile} ELSE profiles0
        /\ nextProfileId' = IF profileOk THEN nextProfileId + 1 ELSE nextProfileId
        /\ creator' = IF profileOk
                      THEN [creator EXCEPT ![profile.profile_id] = "create_testdata"]
                      ELSE creator
        /\ banned' = IF banOk THEN banned0 \cup {ban} ELSE banned0
        /\ servers' = IF banOk THEN servers0 \cup {server} ELSE servers0
        /\ sessions' = IF clear THEN del.sessions ELSE sessions
        /\ pending' = IF clear THEN del.pending ELSE pending
        /\ last' = Called("create_testdata",
                          [NoArgs EXCEPT !.mac_address = mac_address,
                                         !.action = IF clear THEN "clear" ELSE ""],
                          IF banOk THEN "ok" ELSE "IntegrityError", NoResult)
        /\ UNCHANGED <<procVars, now, nextPendingId, pendProcVars, natneg, natProcVars,
                       allow, deny, cpc, ccall, cret, hbVars, reqVars>>

NextProfilePaths ==
    \/ \E p \in Procs, u \in UserIds, g \in GameIds : GocSelect(p, u, g, DefaultKwargs)
    \/ \E p \in Procs : GocInsert(p)
    \/ \E p \in Procs : GocReselect(p)
    \/ \E p \in Procs : GocSaveCfc(p)
    \/ \E p \in Procs : GocCommit(p)
    \/ \E p \in Procs, u \in UserIds, g \in GameIds : CreateInsert(p, u, g, DefaultKwargs)
    \/ \E p \in Procs : CreateSaveCfc(p)
    \/ \E p \in Procs : Return(p)
    \/ \E u \in UserIds, g \in GameIds : ProfileCreateRequest(u, g, DefaultKwargs)
    \/ \E clear \in BOOLEAN, m \in ConsoleMacs : CreateTestdata(clear, m)

\* Profiles are created by get_or_create_profile and create_profile of
\* concurrent callers, by requests to the profile API and by the test-data
\* command.
SpecProfilePaths == Init /\ [][NextProfilePaths]_vars

\* C34: in every state in which no operation is in progress, every stored
\* profile has a non-empty cfc, whichever of get_or_create_profile,
\* create_profile, the profile API and the test-data command created it.
C34_EveryProfileHasCfc ==
    (\A p \in Procs : pc[p] \in {"idle", "done"})
        => \A r \in profiles : r.cfc # EmptyCfc

\* C35: add_to_whitelist(u, m2) for a user whose stored entry has another
\* MAC m1 leaves exactly one entry of u, bound to m2 and enabled, also when
\* the entry was disabled: afterwards is_whitelisted(u, m2) is true and
\* is_whitelisted(u, m1) is false.
C35_AddToWhitelistRebindsAndEnables ==
    [][ \A u \in UserIds, m1 \in MacAddresses, m2 \in MacAddresses :
            (/\ last'.op = "add_to_whitelist"
             /\ last'.args.user_id = u
             /\ last'.args.mac_address = m2
             /\ m1 # m2
             /\ \E e \in allow : e.user_id = u /\ e.mac_address = m1)
            => /\ is_whitelisted(u, m2)'
               /\ ~is_whitelisted(u, m1)'
               /\ Cardinality({x \in allow' : x.user_id = u}) = 1
               /\ \A x \in allow' : x.user_id = u => x.enabled ]_vars

\* add_to_whitelist has rebound the entry of a user that was disabled and
\* had the other MAC.
C35_Witness ==
    /\ last.op = "add_to_whitelist"
    /\ last.path = "updated"
    /\ ~last.ret.before.enabled
    /\ last.ret.before.mac_address # last.args.mac_address
    /\ is_whitelisted(last.args.user_id, last.args.mac_address)
    /\ ~is_whitelisted(last.args.user_id, last.ret.before.mac_address)

\* C36: last_seen of a stored console never decreases, however the steps of
\* concurrent get_or_create_console calls for its MAC interleave: a save
\* never replaces the timestamp of a later contact by an earlier one.
C36_LastSeenNeverDecreases ==
    [][ \A c \in consoles : \A d \in consoles' :
            d.mac_address = c.mac_address => d.last_seen >= c.last_seen ]_vars

=============================================================================
